---- MODULE Spec2Model ----
(***************************************************************************)
(* Semantic query cache of cyx: the query normalizer, the feature-hash     *)
(* embedder, the SQLite-backed CacheStorage and the one-shot request flow  *)
(* of InteractiveSession that drives them.                                 *)
(*                                                                         *)
(* Text is a sequence of one-character strings.  An embedding is kept      *)
(* exactly: a sparse integer vector num together with den2, standing for   *)
(* the vector num / sqrt(den2); similarity scores are compared as exact    *)
(* rationals (the rounding of f32 is not modelled).                        *)
(***************************************************************************)
EXTENDS Integers, Sequences, FiniteSets, TLC

(***************************************************************************)
(* Bounds of the model.                                                    *)
(***************************************************************************)
MaxCalls == 3
MaxTicks == 1
MaxRequests == 2

MaxCommands == 1


(***************************************************************************)
(* Characters and strings (std::str).                                      *)
(***************************************************************************)
LowerCase == <<"a","b","c","d","e","f","g","h","i","j","k","l","m",
               "n","o","p","q","r","s","t","u","v","w","x","y","z">>
UpperCase == <<"A","B","C","D","E","F","G","H","I","J","K","L","M",
               "N","O","P","Q","R","S","T","U","V","W","X","Y","Z">>
Digits == <<"0","1","2","3","4","5","6","7","8","9">>

Range(s) == {s[i] : i \in DOMAIN s}

is_whitespace(c) == c \in {" ", "\t", "\n"}

is_alphanumeric(c) == c \in Range(LowerCase) \cup Range(UpperCase) \cup Range(Digits)

to_lowercase_char(c) ==
    IF c \in Range(UpperCase)
    THEN LowerCase[CHOOSE i \in DOMAIN UpperCase : UpperCase[i] = c]
    ELSE c

\* to_lowercase leaving every character as it is.
to_lowercase_skipped(s) == s

to_lowercase(s) == [i \in DOMAIN s |-> to_lowercase_char(s[i])]

RECURSIVE trim_start(_)
trim_start(s) ==
    IF s # <<>> /\ is_whitespace(Head(s)) THEN trim_start(Tail(s)) ELSE s

RECURSIVE trim_end(_)
trim_end(s) ==
    IF s # <<>> /\ is_whitespace(s[Len(s)])
    THEN trim_end(SubSeq(s, 1, Len(s) - 1))
    ELSE s

trim(s) == trim_end(trim_start(s))

\* str::trim_end_matches(|c| !c.is_alphanumeric())
RECURSIVE trim_end_non_alphanumeric(_)
trim_end_non_alphanumeric(s) ==
    IF s # <<>> /\ ~is_alphanumeric(s[Len(s)])
    THEN trim_end_non_alphanumeric(SubSeq(s, 1, Len(s) - 1))
    ELSE s

\* str::split_whitespace: the maximal runs of non-whitespace characters, read
\* off one character at a time (cur is the run being read, acc the runs so far).
RECURSIVE SplitAcc(_, _, _)
SplitAcc(s, cur, acc) ==
    IF s = <<>>
    THEN IF cur = <<>> THEN acc ELSE Append(acc, cur)
    ELSE IF is_whitespace(Head(s))
         THEN SplitAcc(Tail(s), <<>>, IF cur = <<>> THEN acc ELSE Append(acc, cur))
         ELSE SplitAcc(Tail(s), Append(cur, Head(s)), acc)

\* A long text is first cut in two at a whitespace character, the first one in
\* its second half when there is one: no run crosses a whitespace character.
RECURSIVE split_whitespace(_)
split_whitespace(s) ==
    IF Len(s) <= 24 \/ \A i \in DOMAIN s : ~is_whitespace(s[i])
    THEN SplitAcc(s, <<>>, <<>>)
    ELSE LET m == CHOOSE i \in DOMAIN s :
                     /\ is_whitespace(s[i])
                     /\ \/ 2 * i >= Len(s)
                        \/ \A j \in (i + 1)..Len(s) : ~is_whitespace(s[j])
         IN split_whitespace(SubSeq(s, 1, m - 1))
            \o split_whitespace(SubSeq(s, m + 1, Len(s)))

\* [&str]::join(" ")
RECURSIVE join(_)
join(words) ==
    IF words = <<>> THEN <<>>
    ELSE IF Len(words) = 1 THEN words[1]
    ELSE words[1] \o <<" ">> \o join(Tail(words))

\* The text as one string, to key the hash tables.
RECURSIVE StrOf(_)
StrOf(s) ==
    IF s = <<>> THEN ""
    ELSE IF Len(s) = 1 THEN s[1]
    ELSE StrOf(SubSeq(s, 1, Len(s) \div 2)) \o StrOf(SubSeq(s, (Len(s) \div 2) + 1, Len(s)))

(***************************************************************************)
(* Query normalizer (cache/normalizer.rs).  The lexicon files under data/  *)
(* are not part of the sources; the lexicons are those of the normalizer's *)
(* own tests (create_test_normalizer).                                     *)
(***************************************************************************)
NormalizationConfigDefault ==
    [lowercase |-> TRUE, remove_punctuation |-> FALSE, expand_abbreviations |-> TRUE,
     trim_whitespace |-> TRUE, remove_stopwords |-> TRUE]

abbreviations ==
    (<<"n","m","a","p">> :> <<"n","e","t","w","o","r","k",
          " ","m","a","p","p","e","r",
          " ","n","m","a","p">>)
    @@ (<<"s","y","n">> :> <<"s","t","e","a","l","t","h",
          " ","s","y","n","c","h","r","o","n","i","z","e">>)
    @@ (<<"s","q","l","i">> :> <<"s","q","l",
          " ","i","n","j","e","c","t","i","o","n">>)
    @@ (<<"p","r","i","v","e","s","c">> :> <<"p","r","i","v","i","l","e","g","e",
          " ","e","s","c","a","l","a","t","i","o","n">>)

stopwords ==
    {<<"s","h","o","w">>,
     <<"m","e">>,
     <<"h","o","w">>,
     <<"t","o">>,
     <<"t","h","e">>,
     <<"a">>,
     <<"a","n">>,
     <<"d","o">>,
     <<"f","o","r">>}

\* The lexicon lookup on the token as written, trailing punctuation included.
expand_word_exact(word) ==
    IF word \in DOMAIN abbreviations THEN abbreviations[word] ELSE word

expand_word(word) ==
    LET clean_word == trim_end_non_alphanumeric(word)
    IN IF clean_word \in DOMAIN abbreviations THEN abbreviations[clean_word] ELSE word

expand_abbreviations(text) ==
    LET words == split_whitespace(text)
    IN join([i \in DOMAIN words |-> expand_word(words[i])])

\* The concatenation of a sequence of sequences.
RECURSIVE Flatten(_)
Flatten(parts) ==
    IF parts = <<>> THEN <<>>
    ELSE IF Len(parts) = 1 THEN parts[1]
    ELSE Flatten(SubSeq(parts, 1, Len(parts) \div 2))
         \o Flatten(SubSeq(parts, (Len(parts) \div 2) + 1, Len(parts)))

Kept(c) == is_alphanumeric(c) \/ c = "-" \/ c = "_" \/ c = "/"

\* Punctuation stripping that pushes a space for every character it drops.
clean_punctuation_every_space(text) ==
    trim([i \in DOMAIN text |-> IF Kept(text[i]) THEN text[i] ELSE " "])

\* A kept character is pushed; any other character pushes one space unless the
\* character before it was not kept either (last_was_space).
clean_punctuation(text) ==
    trim(Flatten([i \in DOMAIN text |->
                    IF Kept(text[i]) THEN <<text[i]>>
                    ELSE IF i = 1 \/ Kept(text[i - 1]) THEN <<" ">>
                    ELSE <<>>]))

RECURSIVE FilterWords(_)
FilterWords(words) ==
    IF words = <<>> THEN <<>>
    ELSE IF Head(words) \in stopwords
         THEN FilterWords(Tail(words))
         ELSE <<Head(words)>> \o FilterWords(Tail(words))

\* Stopword removal that drops a stopword only in first position.
remove_stopwords_leading(text) ==
    LET words == split_whitespace(text)
    IN IF words # <<>> /\ Head(words) \in stopwords THEN join(Tail(words))
       ELSE join(words)

remove_stopwords(text) == join(FilterWords(split_whitespace(text)))

\* normalize with the lowercase step moved behind the lexicon lookups.
normalize_with_lowercase_last(config, query) ==
    LET s1 == IF config.trim_whitespace THEN trim(query) ELSE query
        s2 == IF config.expand_abbreviations THEN expand_abbreviations(s1) ELSE s1
        s3 == IF config.remove_punctuation THEN clean_punctuation(s2) ELSE s2
        s4 == IF config.remove_stopwords THEN remove_stopwords(s3) ELSE s3
        s5 == IF config.lowercase THEN to_lowercase(s4) ELSE s4
    IN join(split_whitespace(s5))

\* normalize without its last step: the text as step 5 left it.
normalize_with_no_collapse(config, query) ==
    LET s1 == IF config.trim_whitespace THEN trim(query) ELSE query
        s2 == IF config.lowercase THEN to_lowercase(s1) ELSE s1
        s3 == IF config.expand_abbreviations THEN expand_abbreviations(s2) ELSE s2
        s4 == IF config.remove_punctuation THEN clean_punctuation(s3) ELSE s3
    IN IF config.remove_stopwords THEN remove_stopwords(s4) ELSE s4

normalize_with(config, query) ==
    LET s1 == IF config.trim_whitespace THEN trim(query) ELSE query
        s2 == IF config.lowercase THEN to_lowercase(s1) ELSE s1
        s3 == IF config.expand_abbreviations THEN expand_abbreviations(s2) ELSE s2
        s4 == IF config.remove_punctuation THEN clean_punctuation(s3) ELSE s3
        s5 == IF config.remove_stopwords THEN remove_stopwords(s4) ELSE s4
    IN join(split_whitespace(s5))

\* QueryNormalizer::with_defaults().normalize
normalize(query) == normalize_with(NormalizationConfigDefault, query)

(***************************************************************************)
(* The raw queries of the model and their normalized texts.                *)
(***************************************************************************)
Q_scan_port == <<"s","c","a","n"," ","p","o","r","t">>
Q_Scan_Port == <<" ","S","c","a","n"," "," ","P","o","r","t">>
Q_the_port_scan == <<"t","h","e"," ","p","o","r","t"," ","s","c","a","n">>
Q_sqli == <<"S","Q","L","i","?">>
Q_dns == <<"d","n","s">>
Q_the == <<"t","h","e">>

Queries == {Q_scan_port, Q_Scan_Port, Q_the_port_scan, Q_sqli, Q_dns, Q_the}

NormalizedTexts == {normalize(q) : q \in Queries}

(***************************************************************************)
(* std::collections::hash_map::DefaultHasher::new() hashing a str:         *)
(* SipHash-1-3 with the fixed keys (0, 0) over the bytes of s and 0xff.    *)
(* The 64-bit digest is four 16-bit limbs, most significant first; the     *)
(* table holds the digests of the strings of the model.                    *)
(***************************************************************************)
DefaultHasher(s) ==
    CASE s = "" -> <<12352, 28325, 9157, 15855>>
      [] s = "?nmap" -> <<46506, 25803, 62298, 44457>>
      [] s = "SCAN PORT" -> <<31252, 31527, 27688, 23239>>
      [] s = "Scan Port" -> <<16599, 34047, 30424, 26037>>
      [] s = "Show me how to do an network mapper nmap SYN scan for sql injection testing" -> <<31049, 43939, 14366, 26034>>
      [] s = "Show me how to do an nmap SYN scan for sqli testing" -> <<56077, 62887, 20648, 36720>>
      [] s = "Show network mapper nmap SYN scan sql injection testing" -> <<3619, 57918, 27921, 20392>>
      [] s = "The A" -> <<30713, 8448, 28836, 19521>>
      [] s = "a" -> <<29083, 20665, 42224, 59891>>
      [] s = "can" -> <<15036, 2581, 37946, 20771>>
      [] s = "cti" -> <<42519, 61383, 2541, 57368>>
      [] s = "dns" -> <<18663, 21923, 29476, 2682>>
      [] s = "ect" -> <<11600, 30379, 41448, 55545>>
      [] s = "inj" -> <<11248, 39449, 27643, 39780>>
      [] s = "injection" -> <<5752, 14929, 55091, 5858>>
      [] s = "ion" -> <<16375, 30779, 4210, 45331>>
      [] s = "jec" -> <<19297, 4369, 54604, 7734>>
      [] s = "me how to do an network mapper nmap stealth synchronize scan for sql injection testing" -> <<26014, 2123, 33921, 57623>>
      [] s = "me how to the a" -> <<14321, 30663, 33918, 50424>>
      [] s = "network mapper nmap --syn scan" -> <<41069, 14539, 56936, 62216>>
      [] s = "network mapper nmap --syn scan!!!" -> <<36110, 55582, 43053, 32868>>
      [] s = "network mapper nmap scan -v" -> <<30064, 3257, 5881, 1419>>
      [] s = "network mapper nmap scan? -v" -> <<22004, 36264, 19792, 56076>>
      [] s = "network mapper nmap stealth synchronize scan" -> <<14790, 20154, 56834, 20411>>
      [] s = "network mapper nmap stealth synchronize scan sql injection testing" -> <<5370, 20450, 61851, 63278>>
      [] s = "nje" -> <<60538, 52395, 30814, 52280>>
      [] s = "nmap" -> <<16735, 42242, 17520, 2376>>
      [] s = "nmap --syn scan" -> <<1733, 18002, 50853, 51428>>
      [] s = "nmap --syn scan!!!" -> <<37218, 26255, 52073, 324>>
      [] s = "nmap scan -v" -> <<18977, 51174, 33422, 42459>>
      [] s = "nmap syn scan" -> <<50675, 60102, 30968, 56943>>
      [] s = "nmap, scan? -v" -> <<28801, 31952, 17209, 3327>>
      [] s = "ort" -> <<16859, 51631, 28013, 26080>>
      [] s = "por" -> <<20151, 12213, 46077, 26298>>
      [] s = "port" -> <<44764, 59447, 54677, 9183>>
      [] s = "port scan" -> <<37953, 55841, 49033, 63468>>
      [] s = "sca" -> <<43622, 42699, 13990, 61533>>
      [] s = "scan" -> <<38140, 53334, 12400, 59954>>
      [] s = "scan port" -> <<23305, 12385, 56773, 29523>>
      [] s = "show me how to do an nmap syn scan for sqli testing" -> <<11875, 12313, 33616, 27283>>
      [] s = "show me how to the a" -> <<42019, 5172, 34053, 12025>>
      [] s = "show network mapper nmap syn scan sql injection testing" -> <<29783, 44416, 21278, 20921>>
      [] s = "sql" -> <<27089, 24589, 33292, 57677>>
      [] s = "sql injection" -> <<24758, 53358, 16426, 3951>>
      [] s = "the a" -> <<19429, 16181, 26445, 37802>>
      [] s = "the port scan" -> <<60951, 27449, 35454, 51273>>
      [] s = "the scan" -> <<34191, 18668, 18632, 34155>>
      [] s = "the, scan" -> <<52376, 19277, 52534, 52113>>
      [] s = "tio" -> <<16988, 8877, 56999, 27868>>

Pow16 == 256 * 256

\* (u64 as usize) % m, by Horner's rule on the limbs.
RECURSIVE LimbsMod(_, _, _)
LimbsMod(limbs, m, acc) ==
    IF limbs = <<>> THEN acc
    ELSE LimbsMod(Tail(limbs), m, (((acc * (Pow16 % m)) % m) + (Head(limbs) % m)) % m)

HexDigits == <<"0","1","2","3","4","5","6","7","8","9","a","b","c","d","e","f">>

LimbHex(n) ==
    <<HexDigits[(n \div 4096) + 1], HexDigits[((n \div 256) % 16) + 1],
      HexDigits[((n \div 16) % 16) + 1], HexDigits[(n % 16) + 1]>>

RECURSIVE StripLeadingZeros(_)
StripLeadingZeros(s) ==
    IF Len(s) > 1 /\ Head(s) = "0" THEN StripLeadingZeros(Tail(s)) ELSE s

\* format!("{:x}", u64)
FormatHex(limbs) ==
    StrOf(StripLeadingZeros(LimbHex(limbs[1]) \o LimbHex(limbs[2])
                            \o LimbHex(limbs[3]) \o LimbHex(limbs[4])))

\* QueryNormalizer::compute_hash
compute_hash(normalized_query) == FormatHex(DefaultHasher(StrOf(normalized_query)))

(***************************************************************************)
(* Embedder (cache/embedder.rs).  A vector of `dim` f32 is kept as         *)
(* [dim, num, den2]: component i is num[i] / sqrt(den2), num being sparse  *)
(* (absent slots are 0).                                                   *)
(***************************************************************************)
get_default_dimensions == 256

hash_string(s) == DefaultHasher(StrOf(s))

RECURSIVE Factorial(_)
Factorial(n) == IF n <= 1 THEN 1 ELSE n * Factorial(n - 1)

\* The common denominator of the weights 1/(i+1), 0.5, avg/10 and count/20.
WeightScale(count) == 20 * Factorial(count)

RECURSIVE SumSeq(_)
SumSeq(s) == IF s = <<>> THEN 0 ELSE Head(s) + SumSeq(Tail(s))

RECURSIVE SumOver(_, _)
SumOver(f, S) ==
    IF S = {} THEN 0
    ELSE LET x == CHOOSE y \in S : TRUE IN f[x] + SumOver(f, S \ {x})

Sparse(f) == [i \in {j \in DOMAIN f : f[j] # 0} |-> f[i]]


SumSq(num) == SumOver([i \in DOMAIN num |-> num[i] * num[i]], DOMAIN num)

\* The (slot, weight) additions of the two feature loops, in order.
word_features(words, dimensions, scale) ==
    [i \in DOMAIN words |->
        <<LimbsMod(hash_string(words[i]), dimensions, 0), scale \div i>>]

RECURSIVE trigram_features(_, _, _)
trigram_features(words, dimensions, scale) ==
    IF words = <<>> THEN <<>>
    ELSE LET word == Head(words)
             own == IF Len(word) >= 3
                    THEN [i \in 1..(Len(word) - 2) |->
                            <<LimbsMod(hash_string(SubSeq(word, i, i + 2)), dimensions, 0),
                              scale \div 2>>]
                    ELSE <<>>
         IN own \o trigram_features(Tail(words), dimensions, scale)

Accumulate(adds, dimensions) ==
    LET slots == {adds[k][1] : k \in DOMAIN adds}
    IN [s \in slots |->
          SumSeq([k \in DOMAIN adds |-> IF adds[k][1] = s THEN adds[k][2] ELSE 0])]

normalize_vector(v) ==
    LET norm2 == SumSq(v.num)
    IN IF norm2 > 0 THEN [v EXCEPT !.den2 = norm2] ELSE v

embed_dim(dimensions, text) ==
    LET words == split_whitespace(to_lowercase(text))
        count == Len(words)
        scale == WeightScale(count)
        total == SumSeq([i \in DOMAIN words |-> Len(words[i])])
        acc   == Accumulate(word_features(words, dimensions, scale)
                            \o trigram_features(words, dimensions, scale), dimensions)
        avg   == IF count > 0 THEN (scale * total) \div (10 * count) ELSE 0
        cnt   == (scale * count) \div 20
        full  == IF dimensions > 10
                 THEN [i \in DOMAIN acc \cup {dimensions - 1, dimensions - 2} |->
                         IF i = dimensions - 1 THEN avg
                         ELSE IF i = dimensions - 2 THEN cnt
                         ELSE acc[i]]
                 ELSE acc
    IN normalize_vector([dim |-> dimensions, num |-> Sparse(full), den2 |-> scale * scale])

\* embed_dim over the texts of the model, computed once.
EmbeddingOf == [t \in NormalizedTexts |-> embed_dim(get_default_dimensions, t)]

\* Embedder::new(Embedder::get_default_dimensions()).embed
embed(text) ==
    IF text \in NormalizedTexts THEN EmbeddingOf[text]
    ELSE embed_dim(get_default_dimensions, text)

(***************************************************************************)
(* A similarity score sgn * sqrt(p / q), and a threshold n / d, kept       *)
(* exact.  RatCmp compares p1/q1 with p2/q2 by Euclid's algorithm, so no   *)
(* product leaves the integer range.                                       *)
(***************************************************************************)
RECURSIVE RatCmp(_, _, _, _)
RatCmp(p1, q1, p2, q2) ==
    LET a1 == p1 \div q1
        a2 == p2 \div q2
        r1 == p1 % q1
        r2 == p2 % q2
    IN IF a1 < a2 THEN -1
       ELSE IF a1 > a2 THEN 1
       ELSE IF r1 = 0 /\ r2 = 0 THEN 0
       ELSE IF r1 = 0 THEN -1
       ELSE IF r2 = 0 THEN 1
       ELSE RatCmp(q2, r2, q1, r1)

ZeroScore == [sgn |-> 0, p |-> 0, q |-> 1]

Sign(n) == IF n > 0 THEN 1 ELSE IF n < 0 THEN -1 ELSE 0

\* partial_cmp of two scores: -1, 0 or 1.
ScoreCmp(s, t) ==
    IF s.sgn # t.sgn THEN (IF s.sgn < t.sgn THEN -1 ELSE 1)
    ELSE IF s.sgn = 0 THEN 0
    ELSE s.sgn * RatCmp(s.p, s.q, t.p, t.q)

Threshold(n, d) == [sgn |-> Sign(n), p |-> n * n, q |-> d * d]

\* cosine_similarity taking a vector of zero norm to match everything.
cosine_similarity_zero_norm_matches(a, b) ==
    IF a.dim # b.dim THEN ZeroScore
    ELSE LET both == DOMAIN a.num \cap DOMAIN b.num
             dot  == SumOver([i \in both |-> a.num[i] * b.num[i]], both)
             na2  == SumSq(a.num)
             nb2  == SumSq(b.num)
         IN IF na2 = 0 \/ nb2 = 0 THEN [sgn |-> 1, p |-> 1, q |-> 1]
            ELSE IF dot = 0 THEN ZeroScore
            ELSE [sgn |-> Sign(dot), p |-> dot * dot, q |-> na2 * nb2]

cosine_similarity(a, b) ==
    IF a.dim # b.dim THEN ZeroScore
    ELSE LET both == DOMAIN a.num \cap DOMAIN b.num
             dot  == SumOver([i \in both |-> a.num[i] * b.num[i]], both)
             na2  == SumSq(a.num)
             nb2  == SumSq(b.num)
         IN IF na2 = 0 \/ nb2 = 0 THEN ZeroScore
            ELSE IF dot = 0 THEN ZeroScore
            ELSE [sgn |-> Sign(dot), p |-> dot * dot, q |-> na2 * nb2]

(***************************************************************************)
(* f32 arithmetic (IEEE 754 binary32, round to nearest, ties to even).  A  *)
(* nonzero value is [sgn, m, e] = sgn * m * 2^e with 2^23 <= m < 2^24;     *)
(* every step below stays under 2^31.                                      *)
(***************************************************************************)
F32Zero == [sgn |-> 0, m |-> 0, e |-> 0]

RECURSIVE BitLen(_)
BitLen(n) == IF n = 0 THEN 0 ELSE 1 + BitLen(n \div 2)

Abs(n) == IF n < 0 THEN -n ELSE n

\* An integer below 2^24 in magnitude is held exactly.
F32FromInt(n) ==
    IF n = 0 THEN F32Zero
    ELSE [sgn |-> Sign(n), m |-> Abs(n) * 2^(24 - BitLen(Abs(n))), e |-> BitLen(Abs(n)) - 24]

\* m0 * 2^e with a discarded fraction frac / (2 * half), rounded.
F32Round(sgn, m0, frac, half, e) ==
    LET up == frac > half \/ (frac = half /\ m0 % 2 = 1)
        m  == IF up THEN m0 + 1 ELSE m0
    IN IF m = 2^24 THEN [sgn |-> sgn, m |-> 2^23, e |-> e + 1]
       ELSE [sgn |-> sgn, m |-> m, e |-> e]

\* One more binary digit of a square root: <<root, rem>> of N gives that of
\* 4 * N + bits.
SqrtStep(p, bits) ==
    LET r4 == 4 * p[2] + bits
        trial == 4 * p[1] + 1
    IN IF r4 >= trial THEN <<2 * p[1] + 1, r4 - trial>> ELSE <<2 * p[1], r4>>

RECURSIVE ISqrtRem(_)
ISqrtRem(n) == IF n = 0 THEN <<0, 0>> ELSE SqrtStep(ISqrtRem(n \div 4), n % 4)

RECURSIVE SqrtBits(_, _)
SqrtBits(p, k) == IF k = 0 THEN p ELSE SqrtBits(SqrtStep(p, 0), k - 1)

\* f32::sqrt of a positive integer below 2^24.
f32_sqrt(n) ==
    LET p0 == ISqrtRem(n)
        k  == 24 - BitLen(p0[1])
        p  == SqrtBits(p0, k)
    IN F32Round(1, p[1], 2 * p[2], 2 * p[1] + 1, -k)

\* x * y of two nonzero values: the 48-bit product from 12-bit halves.
f32_mul(x, y) ==
    LET h1  == x.m \div 4096
        l1  == x.m % 4096
        h2  == y.m \div 4096
        l2  == y.m % 4096
        mid == h1 * l2 + l1 * h2
        t   == l1 * l2 + (mid % 4096) * 4096
        lo  == t % 2^24
        hi  == h1 * h2 + mid \div 4096 + t \div 2^24
        e   == x.e + y.e
    IN IF hi >= 2^23
       THEN F32Round(x.sgn * y.sgn, hi, lo, 2^23, e + 24)
       ELSE F32Round(x.sgn * y.sgn, 2 * hi + lo \div 2^23, lo % 2^23, 2^22, e + 23)

\* k more binary digits of rem / m after the quotient q.
RECURSIVE DivBits(_, _, _, _)
DivBits(q, rem, m, k) ==
    IF k = 0 THEN <<q, rem>>
    ELSE IF 2 * rem >= m THEN DivBits(2 * q + 1, 2 * rem - m, m, k - 1)
         ELSE DivBits(2 * q, 2 * rem, m, k - 1)

\* x / y for nonzero y.
f32_div(x, y) ==
    IF x.sgn = 0 THEN F32Zero
    ELSE LET d == IF x.m >= y.m THEN DivBits(1, x.m - y.m, y.m, 23)
                  ELSE DivBits(0, x.m, y.m, 24)
             e == IF x.m >= y.m THEN x.e - y.e - 23 ELSE x.e - y.e - 24
         IN F32Round(x.sgn * y.sgn, d[1], 2 * d[2], y.m, e)

\* -1, 0 or 1 as x <, =, > y.
F32Cmp(x, y) ==
    IF x.sgn # y.sgn THEN (IF x.sgn < y.sgn THEN -1 ELSE 1)
    ELSE IF x.sgn = 0 THEN 0
    ELSE IF x.e # y.e THEN (IF x.e < y.e THEN -x.sgn ELSE x.sgn)
    ELSE x.sgn * Sign(x.m - y.m)

\* cosine_similarity with zip() deciding the length: no check of a.len() != b.len().
cosine_similarity_zipped(a, b) ==
    LET both == 1..(IF Len(a) < Len(b) THEN Len(a) ELSE Len(b))
        dot  == SumSeq([i \in both |-> a[i] * b[i]])
        na2  == SumSeq([i \in DOMAIN a |-> a[i] * a[i]])
        nb2  == SumSeq([i \in DOMAIN b |-> b[i] * b[i]])
    IN IF na2 = 0 \/ nb2 = 0 THEN F32Zero
       ELSE f32_div(F32FromInt(dot), f32_mul(f32_sqrt(na2), f32_sqrt(nb2)))

\* cosine_similarity on slices of small integers, in f32 as the code computes it:
\* the products and the three sums are integers below 2^24, hence exact; sqrt,
\* the product of the norms and the quotient are each rounded.
cosine_similarity_f32(a, b) ==
    IF Len(a) # Len(b) THEN F32Zero
    ELSE LET dot == SumSeq([i \in DOMAIN a |-> a[i] * b[i]])
             na2 == SumSeq([i \in DOMAIN a |-> a[i] * a[i]])
             nb2 == SumSeq([i \in DOMAIN b |-> b[i] * b[i]])
         IN IF na2 = 0 \/ nb2 = 0 THEN F32Zero
            ELSE f32_div(F32FromInt(dot), f32_mul(f32_sqrt(na2), f32_sqrt(nb2)))

(***************************************************************************)
(* Values.  Option<T> is a sequence of at most one element; a nullable     *)
(* column holds NULL as the empty sequence.  Result<T> is Ok or Err.       *)
(***************************************************************************)
Some(x) == <<x>>
Ok(v) == [ok |-> TRUE, value |-> v]
Err(e) == [ok |-> FALSE, value |-> e]

(***************************************************************************)
(* bincode of a Vec<f32>: a length prefix, then the elements.  Reading     *)
(* back needs at least `len` elements after the prefix.                    *)
(***************************************************************************)
bincode_serialize(v) == Ok([len |-> v.dim, payload |-> v])

\* What bincode::serialize(&embedder.embed(text)) can return: the blob, or an error.
SerializeResults(text) == {bincode_serialize(embed(text)), Err("bincode")}

bincode_deserialize(blob) ==
    IF blob.payload.dim < blob.len THEN Err("UnexpectedEof")
    ELSE Ok([dim  |-> blob.len,
             num  |-> [i \in {j \in DOMAIN blob.payload.num : j < blob.len} |->
                         blob.payload.num[i]],
             den2 |-> blob.payload.den2])

(***************************************************************************)
(* The SQLite store (cache/storage.rs).  db = [queries, cache_stats,       *)
(* sqlite_sequence]: the rows of the two tables and the AUTOINCREMENT      *)
(* high-water mark of queries.  A connection keeps last_insert_rowid.      *)
(***************************************************************************)
SecondsPerDay == 86400

IntegerColumns == {"id", "created_at", "last_accessed", "access_count", "hit_count", "miss_count"}

\* The storage class of the value a row holds in a column (CREATE TABLE queries).
StorageClass(row, column) ==
    IF column = "embedding"
    THEN (IF row.embedding = <<>> THEN "null" ELSE "blob")
    ELSE IF column \in IntegerColumns THEN "integer" ELSE "text"

\* rusqlite FromSql: the storage class each Rust type reads.
FromSqlOk(type, class) ==
    \/ type \in {"i64", "i32"} /\ class = "integer"
    \/ type = "String" /\ class = "text"
    \/ type = "Vec<u8>" /\ class = "blob"

\* row.get(index) of every field of `reads` (<<field, index, type>>) over the
\* SELECT list `columns`: the mapped record, or InvalidColumnType.
MapRow(row, columns, reads) ==
    IF \A k \in DOMAIN reads :
          FromSqlOk(reads[k][3], StorageClass(row, columns[reads[k][2] + 1]))
    THEN Ok([f \in {reads[k][1] : k \in DOMAIN reads} |->
                LET k == CHOOSE j \in DOMAIN reads : reads[j][1] = f
                IN row[columns[reads[k][2] + 1]]])
    ELSE Err("InvalidColumnType")

\* The lookup without its WHERE clause: every row matches.
RowsWithHash_unfiltered(db, query_hash) == db.queries

RowsWithHash(db, query_hash) == {r \in db.queries : r.query_hash = query_hash}

StatsRow(db) == CHOOSE s \in db.cache_stats : s.id = 1

\* The rows of a set in ascending id (the order of a table scan).
RECURSIVE ById(_)
ById(rows) ==
    IF rows = {} THEN <<>>
    ELSE LET first == CHOOSE r \in rows : \A o \in rows : r.id <= o.id
         IN <<first>> \o ById(rows \ {first})

FreshConnection == [last_insert_rowid |-> 0, embedder |-> TRUE]

\* initialize_schema with INSERT OR REPLACE: opening the store resets the counters.
initialize_schema_replacing(db) ==
    [db EXCEPT !.cache_stats =
        {s \in db.cache_stats : s.id # 1}
        \cup {[id |-> 1, hit_count |-> 0, miss_count |-> 0]}]

initialize_schema(db) ==
    [db EXCEPT !.cache_stats =
        IF \E s \in db.cache_stats : s.id = 1 THEN db.cache_stats
        ELSE db.cache_stats \cup {[id |-> 1, hit_count |-> 0, miss_count |-> 0]}]

EmptyFile == [queries |-> {}, cache_stats |-> {}, sqlite_sequence |-> 0]

\* ---- store ----
StoreInsertColumns ==
    <<"query_original", "query_normalized", "query_hash", "embedding", "response",
      "provider", "model", "created_at", "last_accessed", "access_count">>

\* VALUES (?1, ..., ?9): the parameter each value takes.
StoreInsertValues == <<1, 2, 3, 4, 5, 6, 7, 8, 9>>

StoreUpdateColumns == {"embedding", "response", "provider", "model", "last_accessed"}

\* sqlite3_prepare of an INSERT: one value per named column, or an error.
InsertPrepares(columns, values) == Len(columns) = Len(values)

\* INSERT ... ON CONFLICT(query_hash) DO UPDATE, with the bound parameters.
Upsert(db, conn, params) ==
    LET excluded == [c \in Range(StoreInsertColumns) |->
                       params[StoreInsertValues[
                           CHOOSE k \in DOMAIN StoreInsertColumns : StoreInsertColumns[k] = c]]]
        hit == RowsWithHash(db, excluded.query_hash)
    IN IF hit = {}
       THEN LET id == db.sqlite_sequence + 1
            IN [db   |-> [db EXCEPT !.queries = @ \cup {excluded @@ [id |-> id]},
                                    !.sqlite_sequence = id],
                conn |-> [conn EXCEPT !.last_insert_rowid = id]]
       ELSE LET old == CHOOSE r \in hit : TRUE
                new == [c \in DOMAIN old |->
                          IF c \in StoreUpdateColumns THEN excluded[c]
                          ELSE IF c = "access_count" THEN old.access_count + 1
                          ELSE old[c]]
            IN [db   |-> [db EXCEPT !.queries = (@ \ {old}) \cup {new}],
                conn |-> conn]

\* store() as a plain INSERT: no ON CONFLICT clause, no UNIQUE constraint.
store_plain_insert(db, conn, query_original, query_normalized, query_hash, response, provider, model, now, serialized) ==
    LET id == db.sqlite_sequence + 1
        row == [id |-> id, query_original |-> query_original,
                query_normalized |-> query_normalized, query_hash |-> query_hash,
                embedding |-> Some(bincode_serialize(embed(query_normalized)).value),
                response |-> response, provider |-> provider, model |-> model,
                created_at |-> now, last_accessed |-> now, access_count |-> 1]
    IN [db   |-> [db EXCEPT !.queries = @ \cup {row}, !.sqlite_sequence = id],
        conn |-> [conn EXCEPT !.last_insert_rowid = id],
        ret  |-> Ok(id)]

\* `serialized` is what bincode::serialize(&embedding) returned.
store(db, conn, query_original, query_normalized, query_hash, response, provider, model, now, serialized) ==
    LET embedding_blob ==
            IF conn.embedder THEN serialized
            ELSE Ok(<<>>)
        params == <<query_original, query_normalized, query_hash,
                    IF conn.embedder THEN Some(embedding_blob.value) ELSE <<>>,
                    response, provider, model, now, now>>
    IN IF ~embedding_blob.ok
       THEN [db |-> db, conn |-> conn, ret |-> Err("bincode")]
       ELSE IF ~InsertPrepares(StoreInsertColumns, StoreInsertValues)
       THEN [db |-> db, conn |-> conn, ret |-> Err("values for columns")]
       ELSE LET done == Upsert(db, conn, params)
            IN [db |-> done.db, conn |-> done.conn,
                ret |-> Ok(done.conn.last_insert_rowid)]

\* ---- counters and access bookkeeping ----
increment_hit_count(db) ==
    [db EXCEPT !.cache_stats =
        {IF s.id = 1 THEN [s EXCEPT !.hit_count = @ + 1] ELSE s : s \in @}]

\* A lookup that found nothing counted with the hits.
increment_miss_count_as_hit(db) == increment_hit_count(db)

increment_miss_count(db) ==
    [db EXCEPT !.cache_stats =
        {IF s.id = 1 THEN [s EXCEPT !.miss_count = @ + 1] ELSE s : s \in @}]

update_access(db, query_hash, now) ==
    [db EXCEPT !.queries =
        {IF r.query_hash = query_hash
         THEN [r EXCEPT !.last_accessed = now, !.access_count = @ + 1]
         ELSE r : r \in @}]

\* ---- get_by_hash ----
GetByHashColumns ==
    <<"id", "query_original", "query_normalized", "query_hash", "response", "embedding",
      "provider", "model", "created_at", "last_accessed", "access_count">>

\* get_by_hash with row.get() reading each field at its own place in the SELECT list.
GetByHashReadsAligned ==
    <<<<"id", 0, "i64">>, <<"query_original", 1, "String">>,
      <<"query_normalized", 2, "String">>, <<"query_hash", 3, "String">>,
      <<"response", 4, "String">>, <<"provider", 6, "String">>,
      <<"model", 7, "String">>, <<"created_at", 8, "i64">>,
      <<"last_accessed", 9, "i64">>, <<"access_count", 10, "i32">>>>

GetByHashReads ==
    <<<<"id", 0, "i64">>, <<"query_original", 1, "String">>,
      <<"query_normalized", 2, "String">>, <<"query_hash", 3, "String">>,
      <<"response", 4, "String">>, <<"provider", 5, "String">>,
      <<"model", 6, "String">>, <<"created_at", 7, "i64">>,
      <<"last_accessed", 8, "i64">>, <<"access_count", 9, "i32">>>>

get_by_hash(db, query_hash, now) ==
    LET found == RowsWithHash(db, query_hash)
    IN IF found = {}
       THEN [db |-> increment_miss_count(db), ret |-> Ok(<<>>)]
       ELSE LET result == MapRow(CHOOSE r \in found : TRUE, GetByHashColumns, GetByHashReads)
            IN IF result.ok
               THEN [db  |-> increment_hit_count(
                                update_access(db, result.value.query_hash, now)),
                     ret |-> Ok(Some(result.value))]
               ELSE [db |-> db, ret |-> result]

\* A get_by_hash call in progress: the statement it runs next, the entry its
\* SELECT mapped, what it returned, and the statements of it that wrote.
NoCall == [pc |-> "idle", query_hash |-> "", cached |-> <<>>, ret |-> Ok(<<>>), wrote |-> <<>>]

Returned(call, ret) == [call EXCEPT !.pc = "returned", !.ret = ret]

\* The next statement of a get_by_hash call, each an autocommit statement of its
\* own; `failed` is conn.prepare / conn.execute returning an error, which `?`
\* hands to the caller.
get_by_hash_statement(db, call, now, failed) ==
    IF failed THEN [db |-> db, call |-> Returned(call, Err("sqlite"))]
    ELSE CASE call.pc = "select" ->
                LET found == RowsWithHash(db, call.query_hash)
                    result == MapRow(CHOOSE r \in found : TRUE,
                                     GetByHashColumns, GetByHashReads)
                IN [db   |-> db,
                    call |-> IF found = {}
                             THEN [call EXCEPT !.pc = "increment_miss_count"]
                             ELSE IF result.ok
                             THEN [call EXCEPT !.pc = "update_access",
                                               !.cached = Some(result.value)]
                             ELSE Returned(call, result)]
           [] call.pc = "update_access" ->
                [db   |-> update_access(db, call.cached[1].query_hash, now),
                 call |-> [call EXCEPT !.pc = "increment_hit_count",
                                       !.wrote = Append(@, "update_access")]]
           [] call.pc = "increment_hit_count" ->
                [db   |-> increment_hit_count(db),
                 call |-> Returned([call EXCEPT !.wrote = Append(@, "increment_hit_count")],
                                   Ok(call.cached))]
           [] call.pc = "increment_miss_count" ->
                [db   |-> increment_miss_count(db),
                 call |-> Returned([call EXCEPT !.wrote = Append(@, "increment_miss_count")],
                                   Ok(<<>>))]

\* ---- search_similar ----
SearchColumns ==
    <<"id", "query_original", "query_normalized", "query_hash", "embedding", "response",
      "provider", "model", "created_at", "last_accessed", "access_count">>

SearchReads ==
    <<<<"id", 0, "i64">>, <<"query_original", 1, "String">>,
      <<"query_normalized", 2, "String">>, <<"query_hash", 3, "String">>,
      <<"response", 5, "String">>, <<"provider", 6, "String">>,
      <<"model", 7, "String">>, <<"created_at", 8, "i64">>,
      <<"last_accessed", 9, "i64">>, <<"access_count", 10, "i32">>>>

SearchBlobRead == <<<<"embedding_blob", 4, "Vec<u8>">>>>

\* One pass of the scan loop: the (entry, score) pairs pushed, in scan order.
RECURSIVE ScanRows(_, _, _)
ScanRows(rows, query_embedding, threshold) ==
    IF rows = <<>> THEN <<>>
    ELSE LET row    == Head(rows)
             cached == bincode_deserialize(row.embedding[1])
             rest   == ScanRows(Tail(rows), query_embedding, threshold)
         IN IF cached.ok
            THEN LET similarity == cosine_similarity(query_embedding, cached.value)
                 IN IF ScoreCmp(similarity, threshold) >= 0
                    THEN <<[entry |-> MapRow(row, SearchColumns, SearchReads).value,
                            score |-> similarity]>> \o rest
                    ELSE rest
            ELSE rest

\* Vec::sort_by(|a, b| b.1.partial_cmp(&a.1)): a stable sort, highest score first.
RECURSIVE InsertByScore(_, _)
InsertByScore(sorted, x) ==
    IF sorted = <<>> THEN <<x>>
    ELSE IF ScoreCmp(Head(sorted).score, x.score) >= 0
         THEN <<Head(sorted)>> \o InsertByScore(Tail(sorted), x)
         ELSE <<x>> \o sorted

\* search_similar without its sort: the results stay in scan order.
sort_by_score_skipped(results) == results

RECURSIVE sort_by_score(_)
sort_by_score(results) ==
    IF results = <<>> THEN <<>>
    ELSE InsertByScore(sort_by_score(SubSeq(results, 1, Len(results) - 1)),
                       results[Len(results)])

truncate(s, limit) == IF Len(s) > limit THEN SubSeq(s, 1, limit) ELSE s

\* search_similar giving up at the first blob it cannot deserialize.
search_similar_strict(db, conn, query_normalized, threshold, limit) ==
    LET rows == ById({r \in db.queries : r.embedding # <<>>})
    IN IF \E k \in DOMAIN rows : ~bincode_deserialize(rows[k].embedding[1]).ok
       THEN Err("bincode")
       ELSE Ok(truncate(sort_by_score(ScanRows(rows, embed(query_normalized), threshold)),
                        limit))

search_similar(db, conn, query_normalized, threshold, limit) ==
    IF ~conn.embedder THEN Ok(<<>>)
    ELSE LET query_embedding == embed(query_normalized)
             rows == ById({r \in db.queries : r.embedding # <<>>})
         IN IF \E k \in DOMAIN rows :
                  \/ ~MapRow(rows[k], SearchColumns, SearchReads).ok
                  \/ ~MapRow(rows[k], SearchColumns, SearchBlobRead).ok
            THEN Err("InvalidColumnType")
            ELSE Ok(truncate(sort_by_score(ScanRows(rows, query_embedding, threshold)),
                             limit))

\* ---- list_all, stats ----
ListColumns ==
    <<"id", "query_original", "query_normalized", "query_hash", "response",
      "provider", "model", "created_at", "last_accessed", "access_count">>

ListReads ==
    <<<<"id", 0, "i64">>, <<"query_original", 1, "String">>,
      <<"query_normalized", 2, "String">>, <<"query_hash", 3, "String">>,
      <<"response", 4, "String">>, <<"provider", 5, "String">>,
      <<"model", 6, "String">>, <<"created_at", 7, "i64">>,
      <<"last_accessed", 8, "i64">>, <<"access_count", 9, "i32">>>>

\* ORDER BY last_accessed DESC; rows of equal last_accessed in scan order.
RECURSIVE ByLastAccessed(_)
ByLastAccessed(rows) ==
    IF rows = {} THEN <<>>
    ELSE LET first == CHOOSE r \in rows :
                        \A o \in rows : \/ r.last_accessed > o.last_accessed
                                        \/ r.last_accessed = o.last_accessed /\ r.id <= o.id
         IN <<first>> \o ByLastAccessed(rows \ {first})

\* list_all without its ORDER BY: the rows come in scan order.
list_all_unordered(db, limit) ==
    LET ordered == ById(db.queries)
        rows == IF limit = <<>> THEN ordered ELSE truncate(ordered, limit[1])
    IN Ok([k \in DOMAIN rows |-> MapRow(rows[k], ListColumns, ListReads).value])

list_all(db, limit) ==
    LET ordered == ByLastAccessed(db.queries)
        rows == IF limit = <<>> THEN ordered ELSE truncate(ordered, limit[1])
    IN IF \E k \in DOMAIN rows : ~MapRow(rows[k], ListColumns, ListReads).ok
       THEN Err("InvalidColumnType")
       ELSE Ok([k \in DOMAIN rows |-> MapRow(rows[k], ListColumns, ListReads).value])

Min(S) == CHOOSE x \in S : \A y \in S : x <= y
Max(S) == CHOOSE x \in S : \A y \in S : x >= y

\* stats() counting the responses only.
stats_responses_only(db) ==
    LET rows == ById(db.queries)
        created == {r.created_at : r \in db.queries}
    IN Ok([total_entries    |-> Cardinality(db.queries),
           total_size_bytes |-> SumSeq([k \in DOMAIN rows |-> Len(rows[k].response)]),
           hit_count        |-> StatsRow(db).hit_count,
           miss_count       |-> StatsRow(db).miss_count,
           oldest_entry     |-> IF created = {} THEN <<>> ELSE Some(Min(created)),
           newest_entry     |-> IF created = {} THEN <<>> ELSE Some(Max(created))])

stats(db) ==
    LET rows == ById(db.queries)
        created == {r.created_at : r \in db.queries}
    IN Ok([total_entries    |-> Cardinality(db.queries),
           total_size_bytes |-> SumSeq([k \in DOMAIN rows |->
                                   Len(rows[k].response) + Len(rows[k].query_original)]),
           hit_count        |-> StatsRow(db).hit_count,
           miss_count       |-> StatsRow(db).miss_count,
           oldest_entry     |-> IF created = {} THEN <<>> ELSE Some(Min(created)),
           newest_entry     |-> IF created = {} THEN <<>> ELSE Some(Max(created))])

\* ---- clear, remove_by_hash, cleanup_old_entries ----
\* clear() without its UPDATE of cache_stats.
clear_rows_only(db) ==
    [db |-> [db EXCEPT !.queries = {}], ret |-> Ok(Cardinality(db.queries))]

clear(db) ==
    [db  |-> [db EXCEPT !.queries = {},
                        !.cache_stats =
                            {IF s.id = 1 THEN [s EXCEPT !.hit_count = 0, !.miss_count = 0]
                             ELSE s : s \in @}],
     ret |-> Ok(Cardinality(db.queries))]

\* remove_by_hash whose DELETE has no WHERE clause.
remove_by_hash_unfiltered(db, query_hash) ==
    [db  |-> [db EXCEPT !.queries = {}],
     ret |-> Ok(Cardinality(RowsWithHash(db, query_hash)) > 0)]

remove_by_hash(db, query_hash) ==
    LET count == Cardinality(RowsWithHash(db, query_hash))
    IN [db  |-> [db EXCEPT !.queries = @ \ RowsWithHash(db, query_hash)],
        ret |-> Ok(count > 0)]

\* cleanup_old_entries deleting the rows created at the cutoff as well (<=).
cleanup_old_entries_inclusive(db, days, now) ==
    LET cutoff == now - (days * SecondsPerDay)
        old == {r \in db.queries : r.created_at <= cutoff}
    IN [db |-> [db EXCEPT !.queries = @ \ old], ret |-> Ok(Cardinality(old))]

cleanup_old_entries(db, days, now) ==
    LET cutoff == now - (days * SecondsPerDay)
        old == {r \in db.queries : r.created_at < cutoff}
    IN [db |-> [db EXCEPT !.queries = @ \ old], ret |-> Ok(Cardinality(old))]

(***************************************************************************)
(* The data of the model: the handles, and the rows a store file may       *)
(* already hold when CacheStorage::new opens it.                           *)
(***************************************************************************)
Handles == {1, 2}

StartTime == 3 * SecondsPerDay

\* A row as a working INSERT of store() writes it (default embedder).
StoredRow(id, original, response, provider, model, created_at, last_accessed, access_count) ==
    [id |-> id, query_original |-> original, query_normalized |-> normalize(original),
     query_hash |-> compute_hash(normalize(original)),
     embedding |-> Some(bincode_serialize(embed(normalize(original))).value),
     response |-> response, provider |-> provider, model |-> model,
     created_at |-> created_at, last_accessed |-> last_accessed,
     access_count |-> access_count]

Row1 == StoredRow(1, Q_scan_port, "r1", "Groq", "llama-3.3-70b-versatile", 0, SecondsPerDay, 2)
Row2 == StoredRow(2, Q_the_port_scan, "r2", "Ollama", "mistral", SecondsPerDay, SecondsPerDay, 1)
Row3 == StoredRow(3, Q_sqli, "r3", "Groq", "llama-3.3-70b-versatile",
                  2 * SecondsPerDay, StartTime, 3)
\* A row written before the embedding column existed (ALTER TABLE ... ADD COLUMN).
Row4 == [StoredRow(4, Q_dns, "r4", "Perplexity", "sonar", 0, 0, 1) EXCEPT !.embedding = <<>>]

\* A row whose embedding blob lost its last element (a truncated write): the
\* length prefix promises more than the blob holds.
Row5 ==
    [StoredRow(1, Q_Scan_Port, "r5", "Groq", "llama-3.3-70b-versatile", 0, SecondsPerDay, 1)
        EXCEPT !.embedding = Some([len |-> get_default_dimensions,
                                   payload |-> [embed(normalize(Q_Scan_Port)) EXCEPT
                                                   !.dim = get_default_dimensions - 1]])]

SampleRows == {Row1, Row2, Row3, Row4}

\* The rows left in the file by earlier runs.
SampleTables == {{}, {Row1}, {Row2}, {Row1, Row2}, {Row3, Row4}, {Row2, Row5}, SampleRows}

InitialFiles ==
    {initialize_schema(EmptyFile)}
    \cup {[queries |-> rows,
           cache_stats |-> {[id |-> 1, hit_count |-> 0, miss_count |-> 0]},
           sqlite_sequence |-> Cardinality(SampleRows)] : rows \in SampleTables}

\* store() arguments, built as one_shot builds them from a raw query.
StoreInput(query, response, provider, model) ==
    [query_original |-> query, query_normalized |-> normalize(query),
     query_hash |-> compute_hash(normalize(query)),
     response |-> response, provider |-> provider, model |-> model]

StoreInputs ==
    {StoreInput(Q_Scan_Port, "r5", "Ollama", "mistral"),
     StoreInput(Q_the, "r6", "Groq", "llama-3.3-70b-versatile")}

LookupQueries == {Q_scan_port, Q_dns, Q_the}

LookupTexts == {normalize(q) : q \in LookupQueries}

LookupHashes == {compute_hash(n) : n \in LookupTexts}

default_similarity_threshold == Threshold(4, 5)

Thresholds == {default_similarity_threshold, Threshold(0, 1)}

Limits == {1, 2}

CleanupDays == {1, 2}

TickSteps == {1, SecondsPerDay}

(***************************************************************************)
(* State.                                                                  *)
(***************************************************************************)
VARIABLES
    db,       \* the store file queries.db
    conns,    \* handle -> Option<connection>: the CacheStorage values alive
    now,      \* Utc::now().timestamp()
    ticks,    \* clock advances so far
    calls,    \* API calls so far
    last,     \* the last API call: [op, handle, args, ret, pre, at], pre being the
              \* rows that held the call's hash before it and at the time of the call
    req,      \* the one-shot request in progress (InteractiveSession::one_shot)
    requests, \* one-shot requests started so far
    answered, \* hash -> the provider response a request passed to store() for it,
              \* forgotten when a cache command deletes rows
    norm,     \* a run of the normalizer on its own: [step, config, query, text, hash]
    cos,      \* a call of cosine_similarity on its own: [step, a, b, result]
    par       \* get_by_hash calls of two handles, statement by statement:
              \* [call, completed, faults, opened]

vars == <<db, conns, now, ticks, calls, last, req, requests, answered, norm, cos, par>>

oneshot == <<req, requests, answered>>

NoRun ==
    [step |-> "none", config |-> NormalizationConfigDefault, query |-> <<>>,
     text |-> <<>>, hash |-> ""]

NoCosine == [step |-> "none", a |-> <<>>, b |-> <<>>, result |-> F32Zero]

NoCalls ==
    [call |-> [h \in Handles |-> NoCall], completed |-> <<>>, faults |-> 0,
     opened |-> EmptyFile]

Idle ==
    [pc |-> "idle", cached |-> FALSE, query |-> <<>>, normalized |-> <<>>, hash |-> "", events |-> <<>>,
     got |-> <<>>, similar |-> <<>>, response |-> <<>>, shown |-> <<>>,
     expect |-> <<>>, outcome |-> "none"]

Call(op, h, args, ret, pre) ==
    [op |-> op, handle |-> h, args |-> args, ret |-> ret, pre |-> pre, at |-> now]

Init ==
    /\ db \in InitialFiles
    /\ conns = [h \in Handles |-> IF h = 1 THEN Some(FreshConnection) ELSE <<>>]
    /\ now = StartTime
    /\ ticks = 0
    /\ calls = 0
    /\ last = [op |-> "new", handle |-> 1, args |-> <<>>, ret |-> Ok(<<>>), pre |-> {},
               at |-> StartTime]
    /\ req = Idle
    /\ requests = 0
    /\ answered = <<>>
    /\ norm = NoRun
    /\ cos = NoCosine
    /\ par = NoCalls

IsOpen(h) == conns[h] # <<>>

\* CacheStorage::new on the same cache directory.
New(h) ==
    /\ calls < MaxCalls
    /\ db' = initialize_schema(db)
    /\ conns' = [conns EXCEPT ![h] = Some(FreshConnection)]
    /\ calls' = calls + 1
    /\ last' = Call("new", h, <<>>, Ok(<<>>), {})
    /\ UNCHANGED <<now, ticks, oneshot, norm, cos, par>>

Store(h, in) ==
    /\ IsOpen(h) /\ calls < MaxCalls
    /\ \E serialized \in SerializeResults(in.query_normalized) :
          LET done == store(db, conns[h][1], in.query_original, in.query_normalized,
                            in.query_hash, in.response, in.provider, in.model, now,
                            serialized)
          IN /\ db' = done.db
             /\ conns' = [conns EXCEPT ![h] = Some(done.conn)]
             /\ last' = Call("store", h, in @@ [serialized |-> serialized.ok], done.ret,
                             RowsWithHash(db, in.query_hash))
    /\ calls' = calls + 1
    /\ UNCHANGED <<now, ticks, oneshot, norm, cos, par>>

GetByHash(h, query_hash) ==
    /\ IsOpen(h) /\ calls < MaxCalls
    /\ LET done == get_by_hash(db, query_hash, now)
       IN /\ db' = done.db
          /\ last' = Call("get_by_hash", h, [query_hash |-> query_hash], done.ret,
                          RowsWithHash(db, query_hash))
    /\ calls' = calls + 1
    /\ UNCHANGED <<conns, now, ticks, oneshot, norm, cos, par>>

SearchSimilar(h, query_normalized, threshold, limit) ==
    /\ IsOpen(h) /\ calls < MaxCalls
    /\ last' = Call("search_similar", h,
                    [query_normalized |-> query_normalized, threshold |-> threshold,
                     limit |-> limit],
                    search_similar(db, conns[h][1], query_normalized, threshold, limit), {})
    /\ calls' = calls + 1
    /\ UNCHANGED <<db, conns, now, ticks, oneshot, norm, cos, par>>

ListAll(h, limit) ==
    /\ IsOpen(h) /\ calls < MaxCalls
    /\ last' = Call("list_all", h, [limit |-> limit], list_all(db, limit), {})
    /\ calls' = calls + 1
    /\ UNCHANGED <<db, conns, now, ticks, oneshot, norm, cos, par>>

Stats(h) ==
    /\ IsOpen(h) /\ calls < MaxCalls
    /\ last' = Call("stats", h, <<>>, stats(db), {})
    /\ calls' = calls + 1
    /\ UNCHANGED <<db, conns, now, ticks, oneshot, norm, cos, par>>

Clear(h) ==
    /\ IsOpen(h) /\ calls < MaxCalls
    /\ db' = clear(db).db
    /\ last' = Call("clear", h, <<>>, clear(db).ret, {})
    /\ calls' = calls + 1
    /\ UNCHANGED <<conns, now, ticks, oneshot, norm, cos, par>>

RemoveByHash(h, query_hash) ==
    /\ IsOpen(h) /\ calls < MaxCalls
    /\ db' = remove_by_hash(db, query_hash).db
    /\ last' = Call("remove_by_hash", h, [query_hash |-> query_hash],
                    remove_by_hash(db, query_hash).ret, RowsWithHash(db, query_hash))
    /\ calls' = calls + 1
    /\ UNCHANGED <<conns, now, ticks, oneshot, norm, cos, par>>

CleanupOldEntries(h, days) ==
    /\ IsOpen(h) /\ calls < MaxCalls
    /\ db' = cleanup_old_entries(db, days, now).db
    /\ last' = Call("cleanup_old_entries", h, [days |-> days],
                    cleanup_old_entries(db, days, now).ret, {})
    /\ calls' = calls + 1
    /\ UNCHANGED <<conns, now, ticks, oneshot, norm, cos, par>>

\* Time passes between two calls.
Tick ==
    /\ ticks < MaxTicks
    /\ \E step \in TickSteps : now' = now + step
    /\ ticks' = ticks + 1
    /\ UNCHANGED <<db, conns, calls, last, oneshot, norm, cos, par>>

Next ==
    \/ \E h \in Handles : New(h)
    \/ \E h \in Handles, in \in StoreInputs : Store(h, in)
    \/ \E h \in Handles, x \in LookupHashes : GetByHash(h, x)
    \/ \E h \in Handles, n \in LookupTexts, t \in Thresholds, l \in Limits :
          SearchSimilar(h, n, t, l)
    \/ \E h \in Handles, l \in {<<>>} \cup {Some(n) : n \in Limits} : ListAll(h, l)
    \/ \E h \in Handles : Stats(h)
    \/ \E h \in Handles : Clear(h)
    \/ \E h \in Handles, x \in LookupHashes : RemoveByHash(h, x)
    \/ \E h \in Handles, d \in CleanupDays : CleanupOldEntries(h, d)
    \/ Tick

Spec == Init /\ [][Next]_vars

(***************************************************************************)
(* The one-shot request (session/interactive.rs, one_shot), one step per   *)
(* call it makes, and the `cyx cache` commands (cli/commands.rs) that may  *)
(* run between its steps.  The request works through handle 1, a cache     *)
(* command through handle 2.                                               *)
(***************************************************************************)
RequestQueries == {Q_scan_port, Q_Scan_Port, Q_the}

ProviderResponses == {"a1", "a2"}

ProviderName == "Groq"

ProviderModel == "llama-3.3-70b-versatile"

\* one_shot going on to the similarity search whatever the exact lookup returned.
after_get_by_hash_always_search(ret) == "search"

\* Where one_shot goes after get_by_hash(&hash)? returned `ret`.
after_get_by_hash(ret) ==
    IF ~ret.ok THEN "failed"
    ELSE IF ret.value # <<>> THEN "exact_hit"
    ELSE "search"

\* one_shot returning after an empty search without calling the provider.
after_search_similar_giving_up(ret) ==
    IF ~ret.ok THEN "failed"
    ELSE IF ret.value # <<>> THEN "similar_hit"
    ELSE "return"

\* Where one_shot goes after search_similar(...)? returned `ret`.
after_search_similar(ret) ==
    IF ~ret.ok THEN "failed"
    ELSE IF ret.value # <<>> THEN "similar_hit"
    ELSE "provider"

\* config.cache.enabled: open the store, normalize the query, hash it.
Begin(query) ==
    /\ req.pc = "idle" /\ requests < MaxRequests
    /\ db' = initialize_schema(db)
    /\ conns' = [conns EXCEPT ![1] = Some(FreshConnection)]
    /\ LET normalized == normalize(query)
           hash == compute_hash(normalized)
       IN req' = [Idle EXCEPT !.pc = "get_by_hash", !.cached = TRUE, !.query = query,
                              !.normalized = normalized, !.hash = hash,
                              !.expect = IF hash \in DOMAIN answered
                                         THEN Some(answered[hash]) ELSE <<>>]
    /\ requests' = requests + 1
    /\ UNCHANGED <<now, ticks, calls, last, answered, norm, cos, par>>

\* !config.cache.enabled: the query goes to the provider, the cache is not used.
BeginUncached(query) ==
    /\ req.pc = "idle" /\ requests < MaxRequests
    /\ \E outcome \in {"failed"} \cup ProviderResponses :
          req' = [Idle EXCEPT !.pc = "done", !.query = query, !.events = <<"provider">>,
                              !.shown = IF outcome = "failed" THEN <<>> ELSE Some(outcome),
                              !.outcome = IF outcome = "failed" THEN "Error"
                                          ELSE "Uncached"]
    /\ requests' = requests + 1
    /\ UNCHANGED <<db, conns, now, ticks, calls, last, answered, norm, cos, par>>

Lookup ==
    /\ req.pc = "get_by_hash"
    /\ LET done == get_by_hash(db, req.hash, now)
           to == after_get_by_hash(done.ret)
       IN /\ db' = done.db
          /\ req' = [req EXCEPT
                !.events = Append(@, "get_by_hash"),
                !.got = Some(done.ret),
                !.pc = IF to = "search" THEN "search_similar" ELSE "done",
                !.shown = IF to = "exact_hit" THEN Some(done.ret.value[1].response) ELSE @,
                !.outcome = IF to = "exact_hit" THEN "ExactHit"
                            ELSE IF to = "failed" THEN "Error" ELSE @]
    /\ UNCHANGED <<conns, now, ticks, calls, last, requests, answered, norm, cos, par>>

Search ==
    /\ req.pc = "search_similar"
    /\ LET ret == search_similar(db, conns[1][1], req.normalized,
                                 default_similarity_threshold, 1)
           to == after_search_similar(ret)
       IN req' = [req EXCEPT
                !.events = Append(@, "search_similar"),
                !.similar = Some(ret),
                !.pc = IF to = "provider" THEN "provider" ELSE "done",
                !.shown = IF to = "similar_hit" THEN Some(ret.value[1].entry.response)
                          ELSE @,
                !.outcome = IF to = "similar_hit" THEN "SimilarHit"
                            ELSE IF to = "failed" THEN "Error" ELSE @]
    /\ UNCHANGED <<db, conns, now, ticks, calls, last, requests, answered, norm, cos, par>>

\* The provider's answer collected without being written to the terminal.
ProviderSilent ==
    /\ req.pc = "provider"
    /\ \E outcome \in {"failed"} \cup ProviderResponses :
          req' = [req EXCEPT
                !.events = Append(@, "provider"),
                !.response = IF outcome = "failed" THEN <<>> ELSE Some(outcome),
                !.pc = IF outcome = "failed" THEN "done" ELSE "store",
                !.outcome = IF outcome = "failed" THEN "Error" ELSE @]
    /\ UNCHANGED <<db, conns, now, ticks, calls, last, requests, answered, norm, cos, par>>

\* Self::new(config)? and process_query_and_return(query)?: the provider's
\* answer, streamed to the terminal as it arrives, or an error.
Provider ==
    /\ req.pc = "provider"
    /\ \E outcome \in {"failed"} \cup ProviderResponses :
          req' = [req EXCEPT
                !.events = Append(@, "provider"),
                !.response = IF outcome = "failed" THEN <<>> ELSE Some(outcome),
                !.shown = IF outcome = "failed" THEN @ ELSE Some(outcome),
                !.pc = IF outcome = "failed" THEN "done" ELSE "store",
                !.outcome = IF outcome = "failed" THEN "Error" ELSE @]
    /\ UNCHANGED <<db, conns, now, ticks, calls, last, requests, answered, norm, cos, par>>

StoreResponse ==
    /\ req.pc = "store"
    /\ \E serialized \in SerializeResults(req.normalized) :
          LET done == store(db, conns[1][1], req.query, req.normalized, req.hash,
                            req.response[1], ProviderName, ProviderModel, now, serialized)
          IN /\ db' = done.db
             /\ conns' = [conns EXCEPT ![1] = Some(done.conn)]
             /\ req' = [req EXCEPT !.events = Append(@, "store"), !.pc = "done",
                                   !.outcome = IF done.ret.ok THEN "Miss" ELSE "Error"]
    /\ answered' = [h \in DOMAIN answered \cup {req.hash} |->
                      IF h = req.hash THEN req.response[1] ELSE answered[h]]
    /\ UNCHANGED <<now, ticks, calls, last, requests, norm, cos, par>>

\* The process exits; the next request may start.
Finish ==
    /\ req.pc = "done"
    /\ req' = Idle
    /\ UNCHANGED <<db, conns, now, ticks, calls, last, requests, answered, norm, cos, par>>

\* A row of `hash` may be gone: what was answered for it is no longer expected.
Forget(hashes) ==
    /\ answered' = [h \in DOMAIN answered \ hashes |-> answered[h]]
    /\ req' = IF req.hash \in hashes THEN [req EXCEPT !.expect = <<>>] ELSE req

\* cyx cache clear | remove <hash> | cleanup --days <n>
CacheCommand(action) ==
    /\ calls < MaxCommands
    /\ conns' = [conns EXCEPT ![2] = Some(FreshConnection)]
    /\ LET opened == initialize_schema(db)
           done == CASE action.name = "clear" -> clear(opened)
                     [] action.name = "remove" -> remove_by_hash(opened, action.hash)
                     [] action.name = "cleanup" ->
                            cleanup_old_entries(opened, action.days, now)
       IN /\ db' = done.db
          /\ last' = Call(action.name, 2, action, done.ret, {})
          /\ Forget({r.query_hash : r \in db.queries \ done.db.queries})
    /\ calls' = calls + 1
    /\ UNCHANGED <<now, ticks, requests, norm, cos, par>>

CacheActions ==
    {[name |-> "clear"]}
    \cup {[name |-> "remove", hash |-> compute_hash(normalize(q))] : q \in RequestQueries}
    \cup {[name |-> "cleanup", days |-> d] : d \in CleanupDays}

NextOneShot ==
    \/ \E q \in RequestQueries : Begin(q)
    \/ \E q \in RequestQueries : BeginUncached(q)
    \/ Lookup
    \/ Search
    \/ Provider
    \/ StoreResponse
    \/ Finish
    \/ \E a \in CacheActions : CacheCommand(a)
    \/ Tick

SpecOneShot == Init /\ [][NextOneShot]_vars

(***************************************************************************)
(* The normalizer on its own: normalize under a configuration, then        *)
(* compute_hash of the text it gave.                                       *)
(***************************************************************************)
ConfigPunctuation ==
    [lowercase |-> TRUE, remove_punctuation |-> TRUE, expand_abbreviations |-> TRUE,
     trim_whitespace |-> TRUE, remove_stopwords |-> TRUE]

ConfigPunctuationOnly ==
    [lowercase |-> TRUE, remove_punctuation |-> TRUE, expand_abbreviations |-> FALSE,
     trim_whitespace |-> TRUE, remove_stopwords |-> FALSE]

ConfigKeepCase ==
    [lowercase |-> FALSE, remove_punctuation |-> FALSE, expand_abbreviations |-> TRUE,
     trim_whitespace |-> TRUE, remove_stopwords |-> TRUE]

ConfigExpandOnly ==
    [lowercase |-> FALSE, remove_punctuation |-> FALSE, expand_abbreviations |-> TRUE,
     trim_whitespace |-> FALSE, remove_stopwords |-> FALSE]

ConfigNothing ==
    [lowercase |-> FALSE, remove_punctuation |-> FALSE, expand_abbreviations |-> FALSE,
     trim_whitespace |-> FALSE, remove_stopwords |-> FALSE]

NormalizerConfigs ==
    {NormalizationConfigDefault,
     ConfigPunctuation,
     ConfigPunctuationOnly,
     ConfigKeepCase,
     ConfigExpandOnly,
     ConfigNothing}

\* ""
N_empty == <<>>

\* "show me how to the a"
N_stopwords ==
    <<"s","h","o","w"," ","m","e"," ","h","o","w"," ","t","o"," ","t","h","e"," ",
      "a">>

\* " The  A "
N_Stopwords == <<" ","T","h","e"," "," ","A"," ">>

\* "nmap syn scan"
N_nmap_syn_scan == <<"n","m","a","p"," ","s","y","n"," ","s","c","a","n">>

\* "Show me how to do an nmap SYN scan for sqli testing"
N_complex ==
    <<"S","h","o","w"," ","m","e"," ","h","o","w"," ","t","o"," ","d","o"," ","a","n",
      " ","n","m","a","p"," ","S","Y","N"," ","s","c","a","n"," ","f","o","r"," ","s",
      "q","l","i"," ","t","e","s","t","i","n","g">>

\* "nmap, scan? -v"
N_punctuated == <<"n","m","a","p",","," ","s","c","a","n","?"," ","-","v">>

\* "?nmap"
N_leading_punctuation == <<"?","n","m","a","p">>

\* "SCAN PORT"
N_SCAN_PORT == <<"S","C","A","N"," ","P","O","R","T">>

\* "nmap --syn scan!!!"
N_dashes == <<"n","m","a","p"," ","-","-","s","y","n"," ","s","c","a","n","!","!","!">>

\* "the, scan"
N_the_comma == <<"t","h","e",","," ","s","c","a","n">>

NormalizerQueries ==
    {N_empty,
     N_stopwords,
     N_Stopwords,
     N_nmap_syn_scan,
     N_complex,
     N_punctuated,
     N_leading_punctuation,
     N_SCAN_PORT,
     N_dashes,
     N_the_comma,
     Q_scan_port,
     Q_Scan_Port,
     Q_the_port_scan}

InitNormalize ==
    /\ db = initialize_schema(EmptyFile)
    /\ conns = [h \in Handles |-> IF h = 1 THEN Some(FreshConnection) ELSE <<>>]
    /\ now = StartTime
    /\ ticks = 0
    /\ calls = 0
    /\ last = [op |-> "new", handle |-> 1, args |-> <<>>, ret |-> Ok(<<>>), pre |-> {},
               at |-> StartTime]
    /\ req = Idle
    /\ requests = 0
    /\ answered = <<>>
    /\ norm \in {[NoRun EXCEPT !.step = "query", !.config = c, !.query = q] :
                    c \in NormalizerConfigs, q \in NormalizerQueries}
    /\ cos = NoCosine
    /\ par = NoCalls

\* QueryNormalizer { config, .. }.normalize(query)
Normalize ==
    /\ norm.step = "query"
    /\ norm' = [norm EXCEPT !.step = "normalized",
                            !.text = normalize_with(norm.config, norm.query)]
    /\ UNCHANGED <<db, conns, now, ticks, calls, last, oneshot, cos, par>>

\* Step 4 of normalize on the text as given: self.clean_punctuation(&normalized)
CleanPunctuation ==
    /\ norm.step = "query"
    /\ norm.config.remove_punctuation
    /\ norm' = [norm EXCEPT !.step = "cleaned", !.text = clean_punctuation(norm.query)]
    /\ UNCHANGED <<db, conns, now, ticks, calls, last, oneshot, cos, par>>

\* normalizer.compute_hash(&normalized)
ComputeHash ==
    /\ norm.step = "normalized"
    /\ norm' = [norm EXCEPT !.step = "hashed", !.hash = compute_hash(norm.text)]
    /\ UNCHANGED <<db, conns, now, ticks, calls, last, oneshot, cos, par>>

NextNormalize ==
    \/ Normalize
    \/ CleanPunctuation
    \/ ComputeHash

SpecNormalize == InitNormalize /\ [][NextNormalize]_vars

(***************************************************************************)
(* cosine_similarity on its own, on the vectors of the tests in            *)
(* embedder.rs and on all short vectors of small integers.                 *)
(***************************************************************************)
MaxComponent == 2

Components == (0 - MaxComponent)..MaxComponent

CosineVectors ==
    {<<>>} \cup {<<x>> : x \in Components} \cup {<<x, y>> : x, y \in Components}
    \cup {<<1, 2, 3>>, <<-1, -2, -3>>, <<1, 0, 0>>, <<0, 1, 0>>}

InitCosine ==
    /\ db = initialize_schema(EmptyFile)
    /\ conns = [h \in Handles |-> IF h = 1 THEN Some(FreshConnection) ELSE <<>>]
    /\ now = StartTime
    /\ ticks = 0
    /\ calls = 0
    /\ last = [op |-> "new", handle |-> 1, args |-> <<>>, ret |-> Ok(<<>>), pre |-> {},
               at |-> StartTime]
    /\ req = Idle
    /\ requests = 0
    /\ answered = <<>>
    /\ norm = NoRun
    /\ cos \in {[NoCosine EXCEPT !.step = "args", !.a = a, !.b = b] :
                   a \in CosineVectors, b \in CosineVectors}
    /\ par = NoCalls

\* cosine_similarity(&a, &b)
CosineSimilarity ==
    /\ cos.step = "args"
    /\ cos' = [cos EXCEPT !.step = "returned", !.result = cosine_similarity_f32(cos.a, cos.b)]
    /\ UNCHANGED <<db, conns, now, ticks, calls, last, oneshot, norm, par>>

NextCosine == CosineSimilarity

SpecCosine == InitCosine /\ [][NextCosine]_vars

(***************************************************************************)
(* Two handles on one store file running get_by_hash, their statements     *)
(* interleaved; a statement may fail.                                      *)
(***************************************************************************)
MaxLookups == 3

MaxFaults == 1

InitConcurrent ==
    /\ db \in InitialFiles
    /\ conns = [h \in Handles |-> Some(FreshConnection)]
    /\ now = StartTime
    /\ ticks = 0
    /\ calls = 0
    /\ last = [op |-> "new", handle |-> 1, args |-> <<>>, ret |-> Ok(<<>>), pre |-> {},
               at |-> StartTime]
    /\ req = Idle
    /\ requests = 0
    /\ answered = <<>>
    /\ norm = NoRun
    /\ cos = NoCosine
    /\ par = [NoCalls EXCEPT !.opened = db]

\* storage.get_by_hash(query_hash) entered on handle h.
EnterGetByHash(h, query_hash) ==
    /\ par.call[h].pc = "idle"
    /\ calls < MaxLookups
    /\ par' = [par EXCEPT !.call[h] = [NoCall EXCEPT !.pc = "select",
                                                     !.query_hash = query_hash]]
    /\ calls' = calls + 1
    /\ UNCHANGED <<db, conns, now, ticks, last, oneshot, norm, cos>>

\* Handle h runs the next statement of its call; the call returns after its
\* last statement or at the first error.
Statement(h) ==
    /\ par.call[h].pc \notin {"idle", "returned"}
    /\ \E failed \in BOOLEAN :
          /\ failed => par.faults < MaxFaults
          /\ LET done == get_by_hash_statement(db, par.call[h], now, failed)
             IN /\ db' = done.db
                /\ par' = [par EXCEPT
                      !.call[h] = IF done.call.pc = "returned" THEN NoCall ELSE done.call,
                      !.completed = IF done.call.pc = "returned"
                                    THEN Append(@, [handle |-> h,
                                                    query_hash |-> done.call.query_hash,
                                                    ret |-> done.call.ret,
                                                    wrote |-> done.call.wrote])
                                    ELSE @,
                      !.faults = IF failed THEN @ + 1 ELSE @]
    /\ UNCHANGED <<conns, now, ticks, calls, last, oneshot, norm, cos>>

NextConcurrent ==
    \/ \E h \in Handles, query_hash \in LookupHashes : EnterGetByHash(h, query_hash)
    \/ \E h \in Handles : Statement(h)

SpecConcurrent == InitConcurrent /\ [][NextConcurrent]_vars

(***************************************************************************)
(* Claims about CacheStorage, under Spec.                                  *)
(***************************************************************************)
StoreStep == \E h \in Handles, in \in StoreInputs : Store(h, in)

GetByHashStep == \E h \in Handles, x \in LookupHashes : GetByHash(h, x)

RowOf(query_hash) == CHOOSE r \in db.queries : r.query_hash = query_hash

\* The CachedQuery a lookup hands back for a row.
EntryOf(row) == [f \in Range(ListColumns) |-> row[f]]

\* C1: no two rows of the store share a query_hash, whatever calls were made,
\* and a store() whose hash already exists leaves the number of rows unchanged.
C1_UniqueHash ==
    /\ [](\A r1, r2 \in db.queries : r1.query_hash = r2.query_hash => r1 = r2)
    /\ [][\A h \in Handles, in \in StoreInputs :
            Store(h, in) /\ RowsWithHash(db, in.query_hash) # {}
            => Cardinality(db'.queries) = Cardinality(db.queries)]_vars

\* A store() call was made with a hash that a row already held.
C1_Witness ==
    /\ last.op = "store"
    /\ last.pre # {}
    /\ Cardinality(db.queries) >= 2

\* C2: after store() of a hash not yet present, get_by_hash(hash) returns an entry
\* with exactly the stored query_original, query_normalized, query_hash, response,
\* provider and model.
C2_RoundTrip ==
    last.op = "store" /\ last.pre = {}
    => /\ last.ret.ok
       /\ LET got == get_by_hash(db, last.args.query_hash, now).ret
          IN /\ got.ok
             /\ got.value # <<>>
             /\ \A f \in DOMAIN last.args \ {"serialized"} :
                   got.value[1][f] = last.args[f]

\* C3: a store() with a hash that already exists overwrites response, provider,
\* model, embedding and last_accessed and adds exactly 1 to access_count; a
\* get_by_hash after it returns the new response and provider.
C3_Overwrite ==
    last.op = "store" /\ last.pre # {}
    => LET old == CHOOSE r \in last.pre : TRUE
           got == get_by_hash(db, last.args.query_hash, now).ret
       IN /\ RowsWithHash(db, last.args.query_hash) # {}
          /\ LET row == RowOf(last.args.query_hash)
             IN /\ row.response = last.args.response
                /\ row.provider = last.args.provider
                /\ row.model = last.args.model
                /\ row.embedding =
                      Some(bincode_serialize(embed(last.args.query_normalized)).value)
                /\ row.last_accessed = last.at
                /\ row.access_count = old.access_count + 1
          /\ got.ok /\ got.value # <<>>
          /\ got.value[1].response = last.args.response
          /\ got.value[1].provider = last.args.provider

\* C4: every get_by_hash call adds exactly 1 to exactly one of hit_count and
\* miss_count: to hit_count when it returns an entry, to miss_count when it
\* returns nothing (so the counters count the hits and the misses).
C4_HitMissAccounting ==
    [][GetByHashStep
       => LET before == StatsRow(db)
              after  == StatsRow(db')
          IN \/ /\ last'.ret.ok /\ last'.ret.value # <<>>
                /\ after.hit_count = before.hit_count + 1
                /\ after.miss_count = before.miss_count
             \/ /\ last'.ret.ok /\ last'.ret.value = <<>>
                /\ after.miss_count = before.miss_count + 1
                /\ after.hit_count = before.hit_count]_vars

\* C5: a row's access_count is 1 right after the store() that inserted it and
\* grows by exactly 1 with every get_by_hash on its hash and every store() that
\* overwrites it.
C5_AccessCount ==
    [][/\ \A h \in Handles, in \in StoreInputs :
             Store(h, in)
             => /\ RowsWithHash(db', in.query_hash) # {}
                /\ LET new == CHOOSE r \in RowsWithHash(db', in.query_hash) : TRUE
                   IN IF RowsWithHash(db, in.query_hash) = {}
                      THEN new.access_count = 1
                      ELSE new.access_count =
                              (CHOOSE r \in RowsWithHash(db, in.query_hash) : TRUE)
                                  .access_count + 1
       /\ \A h \in Handles, x \in LookupHashes :
             GetByHash(h, x) /\ RowsWithHash(db, x) # {}
             => /\ RowsWithHash(db', x) # {}
                /\ (CHOOSE r \in RowsWithHash(db', x) : TRUE).access_count =
                      (CHOOSE r \in RowsWithHash(db, x) : TRUE).access_count + 1]_vars

\* C6: a get_by_hash on a stored hash returns the entry as it was before the call
\* (its access_count and last_accessed included) and leaves the row with
\* access_count one higher and last_accessed set to the time of the call.
C6_PreUpdateEntry ==
    last.op = "get_by_hash" /\ last.pre # {}
    => LET old == CHOOSE r \in last.pre : TRUE
       IN /\ last.ret = Ok(Some(EntryOf(old)))
          /\ RowsWithHash(db, last.args.query_hash) # {}
          /\ RowOf(last.args.query_hash).access_count = old.access_count + 1
          /\ RowOf(last.args.query_hash).last_accessed = last.at

\* The rows search_similar scores, with the score of each against a query.
Scored(query_normalized) ==
    {[id |-> r.id,
      score |-> cosine_similarity(embed(query_normalized),
                                  bincode_deserialize(r.embedding[1]).value)] :
        r \in {x \in db.queries :
                 x.embedding # <<>> /\ bincode_deserialize(x.embedding[1]).ok}}

\* C9: search_similar returns only rows scoring >= threshold, in non-increasing
\* order of score, at most limit of them, and no qualifying row it leaves out
\* scores strictly higher than one it returns.
C9_SearchSimilar ==
    last.op = "search_similar" /\ last.ret.ok
    => LET res == last.ret.value
           returned == {res[k].entry.id : k \in DOMAIN res}
       IN /\ \A k \in DOMAIN res :
                /\ ScoreCmp(res[k].score, last.args.threshold) >= 0
                /\ \E s \in Scored(last.args.query_normalized) :
                      s.id = res[k].entry.id /\ s.score = res[k].score
          /\ \A j, k \in DOMAIN res : j < k => ScoreCmp(res[j].score, res[k].score) >= 0
          /\ Len(res) <= last.args.limit
          /\ \A s \in Scored(last.args.query_normalized) :
                ScoreCmp(s.score, last.args.threshold) >= 0 /\ s.id \notin returned
                => /\ Len(res) = last.args.limit
                   /\ \A k \in DOMAIN res : ScoreCmp(s.score, res[k].score) <= 0

\* A search that returned two rows against their scan order, the higher score
\* first, and left a scored row out.
C9_Witness ==
    /\ last.op = "search_similar" /\ last.ret.ok
    /\ Len(last.ret.value) = 2
    /\ last.ret.value[1].entry.id > last.ret.value[2].entry.id
    /\ ScoreCmp(last.ret.value[1].score, last.ret.value[2].score) > 0
    /\ \E s \in Scored(last.args.query_normalized) :
          s.id \notin {last.ret.value[k].entry.id : k \in DOMAIN last.ret.value}

\* C10: two store() calls with the same hash through two handles, in either
\* order, leave exactly one row with that hash: it holds the values of one of the
\* two calls and its access_count shows one insert and one overwrite.
C10_ConcurrentStore ==
    [][\A h \in Handles, in \in StoreInputs :
          /\ Store(h, in)
          /\ last.op = "store" /\ last.handle # h /\ last.pre = {}
          /\ last.args.query_hash = in.query_hash
          => /\ Cardinality(RowsWithHash(db', in.query_hash)) = 1
             /\ LET row == CHOOSE r \in RowsWithHash(db', in.query_hash) : TRUE
                IN /\ row.access_count = 2
                   /\ row.response \in {in.response, last.args.response}]_vars

(***************************************************************************)
(* Claims about the one-shot request, under SpecOneShot.                   *)
(***************************************************************************)
EventsAt(name) == {i \in DOMAIN req.events : req.events[i] = name}

\* C7: in a one-shot request with caching enabled, search_similar comes after
\* get_by_hash and only if get_by_hash returned no entry; the provider is called
\* only if search_similar returned no result; store() is called only after the
\* provider returned a response, and at most once.
C7_LookupOrder ==
    req.cached
    => /\ \A i \in EventsAt("search_similar") :
             /\ \E j \in EventsAt("get_by_hash") : j < i
             /\ req.got = Some(Ok(<<>>))
       /\ \A i \in EventsAt("provider") :
             /\ \E j \in EventsAt("search_similar") : j < i
             /\ req.similar = Some(Ok(<<>>))
       /\ \A i \in EventsAt("store") :
             /\ \E j \in EventsAt("provider") : j < i
             /\ req.response # <<>>
       /\ Cardinality(EventsAt("store")) <= 1

\* A request that went through all four steps: lookup, search, provider, store.
C7_Witness ==
    /\ req.cached /\ req.pc = "done"
    /\ req.events = <<"get_by_hash", "search_similar", "provider", "store">>

\* C8: once a request missed, got a provider response and passed it to store(),
\* every later request whose query normalizes to the same text ends as an exact
\* hit showing that response, without a provider call, unless a cache command
\* deleted the row in between.
C8_RepeatIsExactHit ==
    req.pc = "done" /\ req.expect # <<>>
    => /\ req.outcome = "ExactHit"
       /\ req.shown = req.expect
       /\ EventsAt("provider") = {}

(***************************************************************************)
(* Claims about the cache management operations, under Spec.               *)
(***************************************************************************)
\* The step is a call of `op` on the storage API.
Called(op) == calls' = calls + 1 /\ last'.op = op

\* C11: clear() deletes every row, sets hit_count and miss_count to 0 and returns
\* the number of rows that existed; stats() then reports total_entries = 0,
\* hit_count = 0 and miss_count = 0.
C11_Clear ==
    [][Called("clear")
          => /\ db'.queries = {}
             /\ StatsRow(db').hit_count = 0 /\ StatsRow(db').miss_count = 0
             /\ last'.ret = Ok(Cardinality(db.queries))
             /\ stats(db').ok
             /\ stats(db').value.total_entries = 0
             /\ stats(db').value.hit_count = 0
             /\ stats(db').value.miss_count = 0]_vars

\* clear() ran on a store that held at least two rows.
C11_Witness ==
    /\ last.op = "clear" /\ last.ret.ok /\ last.ret.value >= 2
    /\ db.queries = {}

\* C12: remove_by_hash(h) returns true exactly when a row with hash h existed and
\* then removes that row and no other; otherwise it returns false and changes
\* nothing; a get_by_hash(h) after a removal returns nothing.
C12_RemoveByHash ==
    [][Called("remove_by_hash")
          => LET x == last'.args.query_hash
                 had == RowsWithHash(db, x)
             IN /\ last'.ret = Ok(had # {})
                /\ db'.queries = db.queries \ had
                /\ Cardinality(had) <= 1
                /\ db'.cache_stats = db.cache_stats
                /\ had = {} => db' = db
                /\ had # {} => get_by_hash(db', x, now').ret = Ok(<<>>)]_vars

\* A removal that found its row and left other rows in the store.
C12_Witness ==
    /\ last.op = "remove_by_hash" /\ last.ret = Ok(TRUE)
    /\ last.pre # {}
    /\ db.queries # {}

\* C13: cleanup_old_entries(days) at time now removes exactly the rows with
\* created_at < now - days*86400, returns their number and leaves the other rows
\* and the counters unchanged.
C13_Cleanup ==
    [][Called("cleanup_old_entries")
          => LET d == last'.args.days
                 old == {r \in db.queries : r.created_at < now - d * 86400}
             IN /\ db'.queries = db.queries \ old
                /\ last'.ret = Ok(Cardinality(old))
                /\ db'.cache_stats = db.cache_stats]_vars

\* A cleanup that removed rows and kept one created exactly at the cutoff.
C13_Witness ==
    /\ last.op = "cleanup_old_entries" /\ last.ret.ok /\ last.ret.value >= 1
    /\ \E r \in db.queries : r.created_at = last.at - last.args.days * 86400

\* C14: opening a store that already exists keeps every row and the current
\* hit_count and miss_count, and cache_stats always holds exactly one row, id = 1.
C14_OpenIdempotent ==
    /\ [](Cardinality(db.cache_stats) = 1 /\ \A s \in db.cache_stats : s.id = 1)
    /\ [][Called("new")
          => db'.queries = db.queries /\ db'.cache_stats = db.cache_stats]_vars

\* A store with rows and a counted miss was opened again.
C14_Witness ==
    /\ last.op = "new"
    /\ db.queries # {}
    /\ StatsRow(db).miss_count > 0

\* C15: rows leave the store only through remove_by_hash, clear or
\* cleanup_old_entries, and get_by_hash and search_similar return a matching row
\* however old it is.
C15_NoEviction ==
    /\ [][db.queries \ db'.queries # {}
          => last'.op \in {"remove_by_hash", "clear", "cleanup_old_entries"}]_vars
    /\ [](last.op = "get_by_hash" /\ last.pre # {}
          => /\ last.ret.ok /\ last.ret.value # <<>>
             /\ last.ret.value[1].id \in {r.id : r \in last.pre})
    /\ [](last.op = "search_similar"
          => \A s \in Scored(last.args.query_normalized) :
                ScoreCmp(s.score, last.args.threshold) >= 0
                /\ Len(last.ret.value) < last.args.limit
                => \E k \in DOMAIN last.ret.value : last.ret.value[k].entry.id = s.id)

\* C16: a request answered from a search_similar result updates the matched
\* entry's last_accessed and access_count, as an exact hit does.
C16_SimilarHitBookkeeping ==
    [][req.pc = "search_similar" /\ req'.outcome = "SimilarHit"
       => LET entry == req'.similar[1].value[1].entry
              rows == {r \in db'.queries : r.id = entry.id}
          IN /\ rows # {}
             /\ \A r \in rows : /\ r.access_count = entry.access_count + 1
                                /\ r.last_accessed = now]_vars

(***************************************************************************)
(* Claims about the normalizer, under SpecNormalize.                       *)
(***************************************************************************)
to_uppercase(s) ==
    [i \in DOMAIN s |->
        IF \E k \in DOMAIN LowerCase : LowerCase[k] = s[i]
        THEN UpperCase[CHOOSE k \in DOMAIN LowerCase : LowerCase[k] = s[i]]
        ELSE s[i]]

RECURSIVE DoubleSpaces(_)
DoubleSpaces(s) ==
    IF s = <<>> THEN <<>>
    ELSE IF Len(s) = 1 THEN (IF s[1] = " " THEN <<" ", " ">> ELSE s)
    ELSE DoubleSpaces(SubSeq(s, 1, Len(s) \div 2))
         \o DoubleSpaces(SubSeq(s, (Len(s) \div 2) + 1, Len(s)))

\* The queries that differ from q only in letter case, in leading, trailing or
\* repeated whitespace, or in leading stopwords.
Variants(q) ==
    {to_uppercase(q),
     <<" ">> \o q \o <<" ", " ">>,
     DoubleSpaces(q),
     <<"t","h","e"," ">> \o q,
     <<"S","h","o","w"," ","m","e"," ">> \o q}

\* C17: queries that differ only in letter case, in leading, trailing or repeated
\* whitespace or in leading stopwords normalize (default configuration) to the
\* same text and get the same digest; compute_hash of one text is one digest.
C17_VariantsAgree ==
    norm.step # "query" /\ norm.config = NormalizationConfigDefault
    => /\ \A v \in Variants(norm.query) :
             /\ normalize(v) = norm.text
             /\ compute_hash(normalize(v)) = compute_hash(norm.text)
       /\ norm.step = "hashed" => compute_hash(norm.text) = norm.hash

\* A query with letters, two tokens and a digest, whose variants are all
\* different from it.
C17_Witness ==
    /\ norm.step = "hashed" /\ norm.config = NormalizationConfigDefault
    /\ norm.query = Q_scan_port
    /\ norm.hash = "5b093061ddc57353"
    /\ norm.query \notin Variants(norm.query)

PipelineOrder ==
    <<"trim_whitespace", "lowercase", "expand_abbreviations", "remove_punctuation",
      "remove_stopwords">>

ApplyStep(name, text) ==
    CASE name = "trim_whitespace" -> trim(text)
      [] name = "lowercase" -> to_lowercase(text)
      [] name = "expand_abbreviations" -> expand_abbreviations(text)
      [] name = "remove_punctuation" -> clean_punctuation(text)
      [] name = "remove_stopwords" -> remove_stopwords(text)

RECURSIVE RunSteps(_, _, _)
RunSteps(names, config, text) ==
    IF names = <<>> THEN text
    ELSE RunSteps(Tail(names), config,
                  IF config[Head(names)] THEN ApplyStep(Head(names), text) ELSE text)

\* C18: normalize applies its enabled steps in the order trim, lowercase,
\* abbreviation expansion, punctuation stripping, stopword removal, whitespace
\* collapse, a disabled step being the identity; "Show me how to do an nmap SYN
\* scan for sqli testing" gives "network mapper nmap stealth synchronize scan sql
\* injection testing".
C18_PipelineOrder ==
    norm.step \in {"normalized", "hashed"}
    => /\ norm.text =
             join(split_whitespace(RunSteps(PipelineOrder, norm.config, norm.query)))
       /\ norm.query = N_complex /\ norm.config = NormalizationConfigDefault
          => StrOf(norm.text) =
                "network mapper nmap stealth synchronize scan sql injection testing"

\* The query of test_complex_query was normalized under the default configuration.
C18_Witness ==
    /\ norm.step = "normalized"
    /\ norm.query = N_complex /\ norm.config = NormalizationConfigDefault
    /\ StrOf(norm.text) =
          "network mapper nmap stealth synchronize scan sql injection testing"

\* What abbreviation expansion makes of one token.
ExpectedToken(token) ==
    LET stripped == trim_end_non_alphanumeric(token)
    IN IF stripped \in DOMAIN abbreviations THEN abbreviations[stripped] ELSE token

\* C19: abbreviation expansion works token by token: a token that is in the
\* lexicon once its trailing non-alphanumeric characters are stripped is replaced
\* by its expansion, any other token is kept verbatim; "nmap syn scan" gives
\* "network mapper nmap stealth synchronize scan".
C19_TokenLocalExpansion ==
    norm.step \in {"normalized", "hashed"}
    => /\ norm.config = ConfigExpandOnly
          => LET tokens == split_whitespace(norm.query)
             IN norm.text = join([i \in DOMAIN tokens |-> ExpectedToken(tokens[i])])
       /\ norm.query = N_nmap_syn_scan
          /\ norm.config \in {ConfigExpandOnly, NormalizationConfigDefault}
          => StrOf(norm.text) = "network mapper nmap stealth synchronize scan"

\* "nmap, scan? -v": the first token matched with its comma stripped, the other
\* two were kept with their punctuation.
C19_Witness ==
    /\ norm.step = "normalized" /\ norm.config = ConfigExpandOnly
    /\ norm.query = N_punctuated
    /\ StrOf(norm.text) = "network mapper nmap scan? -v"

\* C20: normalize("") is the empty string, and a query whose tokens are all
\* stopwords normalizes to the empty string.
C20_OnlyStopwords ==
    /\ norm.step # "query" /\ norm.config = NormalizationConfigDefault
    /\ \A token \in Range(split_whitespace(norm.query)) : token \in stopwords
    => norm.text = <<>>

\* "show me how to the a" was normalized to the empty string.
C20_Witness ==
    /\ norm.step = "normalized" /\ norm.config = NormalizationConfigDefault
    /\ norm.query = N_stopwords
    /\ norm.text = <<>>

(***************************************************************************)
(* Punctuation stripping.                                                  *)
(***************************************************************************)
\* The positions at which a run of kept characters begins.
RunStarts(q) == {i \in DOMAIN q : Kept(q[i]) /\ (i = 1 \/ ~Kept(q[i - 1]))}

\* Where the kept character at position i of q belongs in the stripped text: after
\* the kept characters before it and one space for every run begun before its own.
StrippedPos(q, i) ==
    Cardinality({k \in 1..i : Kept(q[k])}) + Cardinality({k \in RunStarts(q) : k <= i}) - 1

\* C21: with remove_punctuation enabled, punctuation stripping keeps the
\* alphanumeric characters and '-', '_', '/' in their order, makes every run of
\* other characters (whitespace included) between two kept characters exactly one
\* space, and leaves no space at either end; "nmap --syn scan!!!" gives
\* "nmap --syn scan".
C21_CleanPunctuation ==
    norm.step = "cleaned"
        => LET q == norm.query
               t == norm.text
               kept == {i \in DOMAIN q : Kept(q[i])}
           IN /\ Len(t) = IF kept = {} THEN 0
                           ELSE Cardinality(kept) + Cardinality(RunStarts(q)) - 1
              /\ \A i \in kept : t[StrippedPos(q, i)] = q[i]
              /\ \A j \in DOMAIN t :
                     j \notin {StrippedPos(q, i) : i \in kept} => t[j] = " "
              /\ q = N_dashes => StrOf(t) = "nmap --syn scan"

\* A punctuation character followed by whitespace has been stripped to one space.
C21_Witness ==
    /\ norm.step = "cleaned"
    /\ \E i \in 1..(Len(norm.query) - 1) :
          /\ ~Kept(norm.query[i]) /\ ~is_whitespace(norm.query[i])
          /\ is_whitespace(norm.query[i + 1])
    /\ Len(norm.text) < Len(norm.query)
    /\ norm.text # <<>>

(***************************************************************************)
(* Failures of the cache during a one-shot request.                        *)
(***************************************************************************)
\* The request has ended after get_by_hash or search_similar returned an error.
ReadFailed ==
    /\ req.pc = "done" /\ req.cached
    /\ \/ req.got # <<>> /\ ~req.got[1].ok
       \/ req.similar # <<>> /\ ~req.similar[1].ok

\* C22: a one-shot request whose get_by_hash or search_similar failed with a
\* storage error is carried on as a cache miss: the provider is called, and the
\* answer it gives is shown to the user.
C22_ReadFailureIsMiss ==
    ReadFailed
        => /\ "provider" \in Range(req.events)
           /\ req.response # <<>> => req.shown = req.response

\* The step in which one_shot calls store() with the provider's response.
StoreAttempt == req.pc = "store" /\ req'.pc = "done"

\* C23: when store() is attempted the provider's response is already on the
\* terminal and stays there; if store() fails, the request ends with an error,
\* the response still shown.
C23_ResponseShownBeforeStore ==
    [][StoreAttempt
         => /\ req.response # <<>> /\ req.shown = req.response
            /\ req'.shown = req.shown
            /\ (\A serialized \in SerializeResults(req.normalized) :
                  ~store(db, conns[1][1], req.query, req.normalized, req.hash,
                         req.response[1], ProviderName, ProviderModel, now,
                         serialized).ret.ok)
                  => req'.outcome = "Error"]_vars

\* A request that ended with the error of store(), the provider's response shown.
C23_Witness ==
    /\ req.pc = "done" /\ req.outcome = "Error"
    /\ req.events = <<"get_by_hash", "search_similar", "provider", "store">>
    /\ req.shown # <<>> /\ req.shown = req.response

\* C24: a store() whose embedding could not be serialized still succeeds: the row
\* of the hash is there after the call, without an embedding; get_by_hash finds
\* it by its hash and search_similar does not return it.
C24_EmbeddingFailureNotFatal ==
    [][Called("store") /\ ~last'.args.serialized
         => /\ last'.ret.ok
            /\ \E r \in RowsWithHash(db', last'.args.query_hash) : r.embedding = <<>>
            /\ LET got == get_by_hash(db', last'.args.query_hash, now).ret
               IN got.ok /\ got.value # <<>>
            /\ LET found == search_similar(db', FreshConnection,
                                           last'.args.query_normalized, Threshold(0, 1), 2)
               IN /\ found.ok
                  /\ \A k \in DOMAIN found.value :
                        found.value[k].entry.query_hash # last'.args.query_hash]_vars

(***************************************************************************)
(* Rows without a usable embedding.                                        *)
(***************************************************************************)
\* The rows whose embedding is absent or does not deserialize.
Unembedded == {r \in db.queries :
                 r.embedding = <<>> \/ ~bincode_deserialize(r.embedding[1]).ok}

\* C25: search_similar does not fail because of a row whose embedding is absent
\* or cannot be deserialized; it never returns such a row, and every other row
\* scoring >= threshold is returned unless the limit was reached.
C25_BadEmbeddingSkipped ==
    last.op = "search_similar"
    => /\ last.ret.ok
       /\ LET res == last.ret.value
              returned == {res[k].entry.id : k \in DOMAIN res}
          IN /\ \A r \in Unembedded : r.id \notin returned
             /\ \/ Len(res) = last.args.limit
                \/ \A s \in Scored(last.args.query_normalized) :
                      ScoreCmp(s.score, last.args.threshold) >= 0 => s.id \in returned

\* A search for the very text of a row with a truncated blob returned another row.
C25_Witness ==
    /\ last.op = "search_similar" /\ last.ret.ok
    /\ \E r \in Unembedded :
          /\ r.embedding # <<>>
          /\ r.query_normalized = last.args.query_normalized
    /\ last.ret.value # <<>>
    /\ Len(last.ret.value) < last.args.limit

(***************************************************************************)
(* How a one-shot request ends.                                            *)
(***************************************************************************)
\* The request is a cached lookup, and it is over.
Ended == req.pc = "done" /\ req.cached

\* The request is a cached lookup under way.
Running == req.cached /\ req.pc \in {"get_by_hash", "search_similar", "provider", "store"}

\* The calls one_shot still has before it at a position, at most.
StepsLeft(pc) ==
    CASE pc = "get_by_hash" -> 4
      [] pc = "search_similar" -> 3
      [] pc = "provider" -> 2
      [] pc = "store" -> 1
      [] pc = "done" -> 0
      [] OTHER -> 5

C28_StoreReturnsRowId ==
    [][Called("store") /\ last'.args.serialized
         => /\ last'.ret.ok
            /\ \E r \in RowsWithHash(db', last'.args.query_hash) :
                  last'.ret.value = r.id]_vars

(***************************************************************************)
(* list_all and stats.                                                     *)
(***************************************************************************)
\* C29: list_all(limit) returns rows of the store, each once, most recently
\* accessed first: all of them with no limit, and with limit L the first
\* min(L, number of rows) of that order; it changes neither rows nor counters.
C29_ListAll ==
    /\ [](last.op = "list_all"
            => /\ last.ret.ok
               /\ LET res == last.ret.value
                      limit == last.args.limit
                      returned == {res[k].id : k \in DOMAIN res}
                  IN /\ Len(res) = IF limit = <<>> \/ limit[1] > Cardinality(db.queries)
                                   THEN Cardinality(db.queries) ELSE limit[1]
                     /\ \A k \in DOMAIN res :
                           \E r \in db.queries : r.id = res[k].id /\ res[k] = EntryOf(r)
                     /\ \A j, k \in DOMAIN res :
                           j < k => /\ res[j].id # res[k].id
                                    /\ res[j].last_accessed >= res[k].last_accessed
                     /\ \A r \in db.queries :
                           r.id \notin returned
                           => \A k \in DOMAIN res : r.last_accessed <= res[k].last_accessed)
    /\ [][Called("list_all") => db' = db]_vars

\* A capped list that left rows out and put a younger row before an older one.
C29_Witness ==
    /\ last.op = "list_all" /\ last.ret.ok
    /\ last.args.limit = Some(2)
    /\ Cardinality(db.queries) > 2
    /\ Len(last.ret.value) = 2
    /\ last.ret.value[1].id > last.ret.value[2].id

\* C30: stats() reports the number of rows, the sum over the rows of the lengths
\* of query_original and response (0 for an empty store), the two counters, and
\* the least and greatest created_at (both absent for an empty store, oldest <=
\* newest otherwise); it changes nothing.
C30_Stats ==
    /\ [](last.op = "stats"
            => /\ last.ret.ok
               /\ LET s == last.ret.value
                      size == [r \in db.queries |-> Len(r.query_original) + Len(r.response)]
                  IN /\ s.total_entries = Cardinality(db.queries)
                     /\ s.total_size_bytes = SumOver(size, db.queries)
                     /\ db.queries = {} => s.total_size_bytes = 0
                     /\ s.hit_count = StatsRow(db).hit_count
                     /\ s.miss_count = StatsRow(db).miss_count
                     /\ db.queries = {} <=> s.oldest_entry = <<>>
                     /\ db.queries = {} <=> s.newest_entry = <<>>
                     /\ db.queries # {}
                           => /\ \E r \in db.queries : s.oldest_entry = Some(r.created_at)
                              /\ \E r \in db.queries : s.newest_entry = Some(r.created_at)
                              /\ \A r \in db.queries :
                                    /\ s.oldest_entry[1] <= r.created_at
                                    /\ r.created_at <= s.newest_entry[1]
                              /\ s.oldest_entry[1] <= s.newest_entry[1])
    /\ [][Called("stats") => db' = db]_vars

\* stats() of a store with rows created at different times, after a lookup missed.
C30_Witness ==
    /\ last.op = "stats" /\ last.ret.ok
    /\ last.ret.value.total_entries >= 2
    /\ last.ret.value.oldest_entry[1] < last.ret.value.newest_entry[1]
    /\ last.ret.value.miss_count > 0

(***************************************************************************)
(* Whitespace of the normalized text, under SpecNormalize.                 *)
(***************************************************************************)
\* Every setting of the five toggles of NormalizationConfig.
AllConfigs ==
    [lowercase : BOOLEAN, remove_punctuation : BOOLEAN, expand_abbreviations : BOOLEAN,
     trim_whitespace : BOOLEAN, remove_stopwords : BOOLEAN]

\* No whitespace at either end and no two whitespace characters in a row.
Canonical(s) ==
    /\ s # <<>> => ~is_whitespace(s[1]) /\ ~is_whitespace(s[Len(s)])
    /\ \A i \in 1..(Len(s) - 1) : ~(is_whitespace(s[i]) /\ is_whitespace(s[i + 1]))

OtherTrim(config) == [config EXCEPT !.trim_whitespace = ~@]

\* C39: under every configuration of the five toggles the output of normalize
\* has no leading or trailing whitespace and no two consecutive whitespace
\* characters, and it is the same with trim_whitespace on and off.
C39_CanonicalWhitespace ==
    norm.step \in {"normalized", "hashed"}
    => /\ Canonical(norm.text)
       /\ norm.text = normalize_with(OtherTrim(norm.config), norm.query)
       /\ \A c \in AllConfigs :
             /\ Canonical(normalize_with(c, norm.query))
             /\ normalize_with(c, norm.query) = normalize_with(OtherTrim(c), norm.query)

\* normalize with every toggle off took the whitespace off both ends of a query
\* and collapsed a run inside it.
C39_Witness ==
    /\ norm.step = "normalized"
    /\ ~norm.config.trim_whitespace /\ ~norm.config.expand_abbreviations
    /\ ~norm.config.remove_punctuation /\ ~norm.config.remove_stopwords
    /\ norm.query # <<>>
    /\ is_whitespace(norm.query[1]) /\ is_whitespace(norm.query[Len(norm.query)])
    /\ ~Canonical(SubSeq(norm.query, 2, Len(norm.query) - 1))
    /\ norm.text # <<>>

HashOfText == [n \in NormalizedTexts |-> compute_hash(n)]

C34_SimilarHitIsMiss ==
    /\ [][req.pc = "get_by_hash" /\ req'.pc = "search_similar"
          => /\ StatsRow(db').miss_count = StatsRow(db).miss_count + 1
             /\ StatsRow(db').hit_count = StatsRow(db).hit_count
             /\ db'.queries = db.queries]_vars
    /\ [][req.pc = "search_similar" /\ req'.outcome = "SimilarHit"
          => /\ db' = db
             /\ RowsWithHash(db', req.hash) = {}
             /\ get_by_hash(db', req.hash, now').ret = Ok(<<>>)
             /\ Some(search_similar(db', conns'[1][1], req.normalized,
                                    default_similarity_threshold, 1)) = req'.similar]_vars
    /\ [](req.outcome = "SimilarHit"
          => /\ req.events = <<"get_by_hash", "search_similar">>
             /\ req.got = Some(Ok(<<>>))
             /\ req.similar[1].ok /\ req.similar[1].value # <<>>
             /\ req.shown = Some(req.similar[1].value[1].entry.response))

\* The second request in a row that ended as a similar hit, both counted as misses.
C34_Witness ==
    /\ req.outcome = "SimilarHit" /\ req.pc = "done"
    /\ requests = 2
    /\ StatsRow(db).miss_count >= 2
    /\ RowsWithHash(db, req.hash) = {}
    /\ req.similar[1].value[1].entry.query_hash # req.hash

C40_EmptyQueryFindsNothing ==
    last.op = "search_similar" /\ split_whitespace(last.args.query_normalized) = <<>>
    => /\ embed(last.args.query_normalized).dim = get_default_dimensions
       /\ DOMAIN embed(last.args.query_normalized).num = {}
       /\ \A s \in Scored(last.args.query_normalized) : s.score = ZeroScore
       /\ ScoreCmp(last.args.threshold, ZeroScore) > 0 => last.ret = Ok(<<>>)

\* A search for the empty text with the default threshold in a store whose rows
\* have embeddings: nothing returned.
C40_Witness ==
    /\ last.op = "search_similar"
    /\ last.args.query_normalized = <<>>
    /\ last.args.threshold = default_similarity_threshold
    /\ Cardinality(Scored(<<>>)) >= 2
    /\ last.ret = Ok(<<>>)

HitsOn(query_hash) ==
    {k \in DOMAIN par.completed :
        /\ par.completed[k].query_hash = query_hash
        /\ par.completed[k].ret.ok /\ par.completed[k].ret.value # <<>>}

\* C36: after get_by_hash calls of two handles, their statements interleaved
\* and none failing, hit_count + miss_count has grown by the number of completed
\* calls, hit_count by the number of calls on a hash that has a row, and each
\* row's access_count by the number of hits on it.
C36_NoLostIncrement ==
    (\A h \in Handles : par.call[h].pc = "idle") /\ par.faults = 0
    => /\ StatsRow(db).hit_count + StatsRow(db).miss_count
             = StatsRow(par.opened).hit_count + StatsRow(par.opened).miss_count
               + Len(par.completed)
       /\ StatsRow(db).hit_count
             = StatsRow(par.opened).hit_count
               + Cardinality({k \in DOMAIN par.completed :
                                 RowsWithHash(par.opened, par.completed[k].query_hash) # {}})
       /\ \A r \in db.queries :
             \E old \in par.opened.queries :
                /\ old.id = r.id
                /\ r.access_count = old.access_count + Cardinality(HitsOn(r.query_hash))

(***************************************************************************)
(* cosine_similarity, under SpecCosine.                                    *)
(***************************************************************************)
Negated(v) == [i \in DOMAIN v |-> 0 - v[i]]

IsZeroVector(v) == \A i \in DOMAIN v : v[i] = 0

Dot(a, b) == SumSeq([i \in DOMAIN a |-> a[i] * b[i]])

F32One == F32FromInt(1)

F32MinusOne == F32FromInt(-1)

\* 1 + 2^-23, the f32 next above 1.
F32AboveOne == [sgn |-> 1, m |-> 2^23 + 1, e |-> -23]

\* 1 - 2^-23, the second f32 below 1.
F32BelowOne == [sgn |-> 1, m |-> 2^24 - 2, e |-> -24]

====
